---- MODULE Spec2Model ----
(***************************************************************************)
(* Sudoku Duel: the puzzle generators, the bitmask solvers and the MRV     *)
(* candidate engine of sudoku_dp.py and sudoku_hybrid.py.                  *)
(*                                                                         *)
(* A board is a function [0..8 -> [0..8 -> 0..9]] (bd[r][c], 0 empty),     *)
(* as the Python list of lists.  A bit mask is a natural number; the       *)
(* bitwise operators of Python are computed bit by bit.                    *)
(***************************************************************************)
EXTENDS Integers, Sequences, FiniteSets, TLC

\* ------------------------------------------------------------------------
\* Bounds of the model (not program constants)
\* ------------------------------------------------------------------------
\* the grids the solver functions are applied to: the reference grid with
\* any of the first MaxWindow cells of WinCells emptied and at most one of
\* the first MaxEditCells cells of EditCells overwritten
MaxWindow == 8

MaxEditCells == 1

\* count_solutions is applied with limit in 1..MaxLimit
MaxLimit == 3

\* number of outcomes of random.shuffle(nums) in the reference-grid runs
MaxNums == 2

\* number of generate_puzzle runs of GenRuns (outcomes of its shuffles) that
\* each program is started with, at every difficulty
MaxRuns == 2

VARIABLES
    pc,              \* where the program is: "fn" / "shuffle" (a function is applied
                     \* to arg), "idle", "carve" (generate_puzzle, between two passes
                     \* of its loop), "count" (inside count_solutions), "returned"
    difficulty,      \* self.difficulty
    board,           \* self.board
    initial_board,   \* self.initial_board
    solution_board,  \* self.solution_board
    cells,           \* generate_puzzle: the shuffled list of cells
    ci,              \* generate_puzzle: the position of the loop in cells
    holes,           \* generate_puzzle: the local counter holes
    backup,          \* generate_puzzle: the local backup of the cell being tried
    solver,          \* generate_puzzle: the BitmaskSolver, inside count_solutions
    variant,         \* the program: "dp" (sudoku_dp.py) or "hybrid" (sudoku_hybrid.py)
    arg,             \* the grid a solver function is applied to
    op,              \* the function applied, with its other arguments
    res,             \* what it returned
    hsolver,         \* sudoku_hybrid.py: row_mask, col_mask, box_mask and dp_cache of
                     \* the game object, with the locals of solve_hybrid in progress
    pq,              \* sudoku_hybrid.py: self.pq
    game_over,       \* self.game_over
    pending,         \* number of ai_turn callbacks scheduled with root.after
    locked,          \* the cells whose Entry the AI disabled since the last render_board
    nturns           \* number of handlers run since the game state of Init

\* the variables of the game and of the hybrid solver
others == <<hsolver, pq, game_over, pending, locked, nturns>>

vars == <<pc, difficulty, board, initial_board, solution_board, cells, ci, holes,
          backup, solver, variant, arg, op, res, others>>

\* ------------------------------------------------------------------------
\* Integer bit operations (Python |, &, ~ and << on small masks)
\* ------------------------------------------------------------------------
Idx == 0..8

Shl1(k) == 2^k

RECURSIVE BitOr(_, _)
BitOr(a, b) ==
    IF a = 0 THEN b
    ELSE IF b = 0 THEN a
    ELSE (IF a % 2 = 1 \/ b % 2 = 1 THEN 1 ELSE 0) + 2 * BitOr(a \div 2, b \div 2)

RECURSIVE BitAnd(_, _)
BitAnd(a, b) ==
    IF a = 0 \/ b = 0 THEN 0
    ELSE (IF a % 2 = 1 /\ b % 2 = 1 THEN 1 ELSE 0) + 2 * BitAnd(a \div 2, b \div 2)

\* a & ~b for a >= 0, b >= 0 (Python's ~b is -b-1: every bit of b flipped)
RECURSIVE BitAndNot(_, _)
BitAndNot(a, b) ==
    IF a = 0 THEN 0
    ELSE (IF a % 2 = 1 /\ b % 2 = 0 THEN 1 ELSE 0) + 2 * BitAndNot(a \div 2, b \div 2)

\* bin(mask).count("1")
RECURSIVE PopCount(_)
PopCount(m) == IF m = 0 THEN 0 ELSE (m % 2) + PopCount(m \div 2)

\* ------------------------------------------------------------------------
\* Boards
\* ------------------------------------------------------------------------
\* a function on 0..8 and a board written out as explicit tables: the same
\* function, evaluated once instead of at every application
Table9(f) ==
    (0 :> f[0]) @@ (1 :> f[1]) @@ (2 :> f[2]) @@ (3 :> f[3]) @@ (4 :> f[4]) @@
    (5 :> f[5]) @@ (6 :> f[6]) @@ (7 :> f[7]) @@ (8 :> f[8])

TableBoard(g) == Table9([r \in Idx |-> Table9(g[r])])

ZeroBoard == TableBoard([r \in Idx |-> [c \in Idx |-> 0]])

ZeroMasks == [i \in Idx |-> 0]

\* Python's None, where a board or a tuple may stand
None == <<>>

\* row-major list of all 81 cells: [(r, c) for r in range(9) for c in range(9)]
RowMajor == [i \in 1..81 |-> <<(i - 1) \div 9, (i - 1) % 9>>]

\* ------------------------------------------------------------------------
\* sudoku_dp.py: class BitmaskSolver
\* ------------------------------------------------------------------------
get_box_index(r, c) == (r \div 3) * 3 + (c \div 3)

\* the bits a list of cell values sets: mask |= 1 << (v - 1) for every v # 0
MaskOfValues(vals) ==
    LET B(k) == IF \E i \in DOMAIN vals : vals[i] = k + 1 THEN Shl1(k) ELSE 0
    IN B(0) + B(1) + B(2) + B(3) + B(4) + B(5) + B(6) + B(7) + B(8)

BoxValues(bd, b) ==
    [i \in Idx |-> bd[3 * (b \div 3) + (i \div 3)][3 * (b % 3) + (i % 3)]]

EmptyCellsOf(bd) == SelectSeq(RowMajor, LAMBDA p : bd[p[1]][p[2]] = 0)

\* the solver's fields after _initialize_masks(board), and the list it returns
initialize_masks(bd) ==
    [rows  |-> [r \in Idx |-> MaskOfValues(bd[r])],
     cols  |-> [c \in Idx |-> MaskOfValues([r \in Idx |-> bd[r][c]])],
     boxes |-> [b \in Idx |-> MaskOfValues(BoxValues(bd, b))],
     empty_cells |-> EmptyCellsOf(bd)]

\* the three mask updates of a placement and of its undo
PlaceBit(st, r, c, k) ==
    [board |-> [st.board EXCEPT ![r][c] = k + 1],
     rows  |-> [st.rows  EXCEPT ![r] = BitOr(@, Shl1(k))],
     cols  |-> [st.cols  EXCEPT ![c] = BitOr(@, Shl1(k))],
     boxes |-> [st.boxes EXCEPT ![get_box_index(r, c)] = BitOr(@, Shl1(k))]]

\* an undo that forgets the box mask
UndoBit_keeps_box(st, r, c, k) ==
    [board |-> [st.board EXCEPT ![r][c] = 0],
     rows  |-> [st.rows  EXCEPT ![r] = BitAndNot(@, Shl1(k))],
     cols  |-> [st.cols  EXCEPT ![c] = BitAndNot(@, Shl1(k))],
     boxes |-> st.boxes]

UndoBit(st, r, c, k) ==
    [board |-> [st.board EXCEPT ![r][c] = 0],
     rows  |-> [st.rows  EXCEPT ![r] = BitAndNot(@, Shl1(k))],
     cols  |-> [st.cols  EXCEPT ![c] = BitAndNot(@, Shl1(k))],
     boxes |-> [st.boxes EXCEPT ![get_box_index(r, c)] = BitAndNot(@, Shl1(k))]]

Taken(st, r, c) == BitOr(BitOr(st.rows[r], st.cols[c]), st.boxes[get_box_index(r, c)])

Digits0 == <<0, 1, 2, 3, 4, 5, 6, 7, 8>>

\* the k of "for k in range(9)" that pass "if not (taken & mask)", in loop
\* order (taken is read once, before the loop)
FreeBits(taken) == SelectSeq(Digits0, LAMBDA k : BitAnd(taken, Shl1(k)) = 0)

\* _count_options(r, c) on the masks m
count_options(m, r, c) == Len(FreeBits(Taken(m, r, c)))

\* empty_cells.sort(key=lambda cell: self._count_options(cell[0], cell[1])) on
\* the masks m, from key n on (the keys are in 0..9).  The sort is stable:
\* cells with equal keys keep their order.
RECURSIVE SortByOptions(_, _, _)
SortByOptions(seq, m, n) ==
    IF n > 9 THEN <<>>
    ELSE SelectSeq(seq, LAMBDA p : count_options(m, p[1], p[2]) = n)
         \o SortByOptions(seq, m, n + 1)

\* _backtrack and its loop.  st is (board, rows, cols, boxes) on entry; the
\* result is the value returned (ret) and the same four on return.  ks is the
\* list of free bits of the cell, j the position of the loop in it.
RECURSIVE backtrack(_, _, _), backtrack_loop(_, _, _, _, _)
\* mutant of backtrack_loop: "return False" inside the for loop, after the
\* first digit that fails
backtrack_loop_first_only(s, empty_cells, idx, ks, j) ==
    IF j > Len(ks) THEN [ret |-> FALSE, st |-> s]
    ELSE LET r == empty_cells[idx + 1][1]
             c == empty_cells[idx + 1][2]
             sub == backtrack(PlaceBit(s, r, c, ks[j]), empty_cells, idx + 1)
         IN IF sub.ret THEN sub
            ELSE [ret |-> FALSE, st |-> UndoBit(sub.st, r, c, ks[j])]

backtrack(st, empty_cells, idx) ==
    IF idx = Len(empty_cells) THEN [ret |-> TRUE, st |-> st]
    ELSE backtrack_loop(st, empty_cells, idx,
                        FreeBits(Taken(st, empty_cells[idx + 1][1], empty_cells[idx + 1][2])), 1)

backtrack_loop(s, empty_cells, idx, ks, j) ==
    IF j > Len(ks) THEN [ret |-> FALSE, st |-> s]
    ELSE LET r == empty_cells[idx + 1][1]
             c == empty_cells[idx + 1][2]
             sub == backtrack(PlaceBit(s, r, c, ks[j]), empty_cells, idx + 1)
         IN IF sub.ret THEN sub
            ELSE backtrack_loop(UndoBit(sub.st, r, c, ks[j]), empty_cells, idx, ks, j + 1)

\* BitmaskSolver.solve(board): the board returned, or None; st is what the
\* call leaves in the caller's board and in the solver's masks
solve_state(bd) ==
    LET m == initialize_masks(bd)
        sorted == SortByOptions(m.empty_cells, m, 0)
    IN backtrack([board |-> bd, rows |-> m.rows, cols |-> m.cols, boxes |-> m.boxes],
                 sorted, 0)

solve(bd) ==
    LET out == solve_state(bd)
    IN IF out.ret THEN out.st.board ELSE None

\* _backtrack_count and its loop, as _backtrack; count is the local counter
RECURSIVE backtrack_count(_, _, _, _), backtrack_count_loop(_, _, _, _, _, _, _)
\* mutant of backtrack_count_loop: the undo resets the cell but leaves the
\* three mask bits set
backtrack_count_loop_no_unmask(s, empty_cells, idx, limit, ks, j, count) ==
    IF j > Len(ks) THEN [ret |-> count, st |-> s]
    ELSE LET r == empty_cells[idx + 1][1]
             c == empty_cells[idx + 1][2]
             sub == backtrack_count(PlaceBit(s, r, c, ks[j]), empty_cells, idx + 1, limit)
         IN IF count + sub.ret >= limit
            THEN [ret |-> count + sub.ret, st |-> [sub.st EXCEPT !.board[r][c] = 0]]
            ELSE backtrack_count_loop([sub.st EXCEPT !.board[r][c] = 0], empty_cells, idx,
                                      limit, ks, j + 1, count + sub.ret)

backtrack_count(st, empty_cells, idx, limit) ==
    IF idx = Len(empty_cells) THEN [ret |-> 1, st |-> st]
    ELSE backtrack_count_loop(st, empty_cells, idx, limit,
                              FreeBits(Taken(st, empty_cells[idx + 1][1], empty_cells[idx + 1][2])),
                              1, 0)

backtrack_count_loop(s, empty_cells, idx, limit, ks, j, count) ==
    IF j > Len(ks) THEN [ret |-> count, st |-> s]
    ELSE LET r == empty_cells[idx + 1][1]
             c == empty_cells[idx + 1][2]
             sub == backtrack_count(PlaceBit(s, r, c, ks[j]), empty_cells, idx + 1, limit)
         IN IF count + sub.ret >= limit
            THEN [ret |-> count + sub.ret, st |-> UndoBit(sub.st, r, c, ks[j])]
            ELSE backtrack_count_loop(UndoBit(sub.st, r, c, ks[j]), empty_cells, idx, limit,
                                      ks, j + 1, count + sub.ret)

count_solutions_state(bd, limit) ==
    LET m == initialize_masks(bd)
    IN backtrack_count([board |-> bd, rows |-> m.rows, cols |-> m.cols, boxes |-> m.boxes],
                       EmptyCellsOf(bd), 0, limit)

count_solutions(bd, limit) == count_solutions_state(bd, limit).ret

\* The same count_solutions run one step at a time, for the calls made from
\* generate_puzzle.  sv.st is (board, rows, cols, boxes); sv.frames is the
\* stack of _backtrack_count calls in progress, the call at position d having
\* idx = d - 1, with its locals taken, k and count; sv.ret is the value just
\* returned by a call and not yet consumed, NoRet when there is none.
NoRet == 0 - 1

IdleSolver ==
    [st |-> [board |-> ZeroBoard, rows |-> ZeroMasks, cols |-> ZeroMasks,
             boxes |-> ZeroMasks],
     empty_cells |-> <<>>, limit |-> 0, frames |-> <<>>, ret |-> NoRet]

\* the hybrid solver before any call: no masks, no cache, no call in progress
\* (board, order, changed, box, cell and progress are locals of solve_hybrid,
\* solve_dnc_phase and solve_dnc_subgrid; frames, returned and ret are the
\* stack of _solve_dp_helper calls and the value a call just returned;
\* pass_entry records the board at the start of the pass of solve_dnc_phase
\* in progress)
IdleHybrid ==
    [board |-> ZeroBoard, row_mask |-> ZeroMasks, col_mask |-> ZeroMasks,
     box_mask |-> ZeroMasks, dp_cache |-> {}, order |-> "asc", changed |-> FALSE,
     box |-> 0, cell |-> 0, progress |-> FALSE, frames |-> <<>>,
     returned |-> FALSE, ret |-> None, pass_entry |-> ZeroBoard]

\* no game is played: the queue as __init__ leaves it
NoGame ==
    /\ pq = <<>>
    /\ game_over = FALSE
    /\ pending = 0
    /\ locked = {}
    /\ nturns = 0

\* a call _backtrack_count(board, empty_cells, idx, limit) with idx = Len(sv.frames),
\* up to its loop: it returns 1 at once, or computes taken and starts the loop
CountEnter(sv) ==
    LET idx == Len(sv.frames)
    IN IF idx = Len(sv.empty_cells) THEN [sv EXCEPT !.ret = 1]
       ELSE [sv EXCEPT !.frames =
                Append(@, [taken |-> Taken(sv.st, sv.empty_cells[idx + 1][1],
                                           sv.empty_cells[idx + 1][2]),
                           k |-> 0, count |-> 0])]

\* count_solutions(board, limit) up to the loop of the first _backtrack_count
CountCall(bd, limit) ==
    LET m == initialize_masks(bd)
    IN CountEnter([st |-> [board |-> bd, rows |-> m.rows, cols |-> m.cols,
                           boxes |-> m.boxes],
                   empty_cells |-> EmptyCellsOf(bd), limit |-> limit,
                   frames |-> <<>>, ret |-> NoRet])

\* the loop of the innermost call runs on from k: to the next free bit, which
\* it places before it calls _backtrack_count for idx + 1, or to the end,
\* where the call returns count
CountAdvance(sv) ==
    LET d == Len(sv.frames)
        f == sv.frames[d]
        r == sv.empty_cells[d][1]
        c == sv.empty_cells[d][2]
        free == {k \in f.k..8 : BitAnd(f.taken, Shl1(k)) = 0}
    IN IF free = {}
       THEN [sv EXCEPT !.frames = SubSeq(@, 1, d - 1), !.ret = f.count]
       ELSE LET k == CHOOSE x \in free : \A y \in free : x <= y
            IN CountEnter([sv EXCEPT !.st = PlaceBit(sv.st, r, c, k), !.frames[d].k = k])

\* the call made by the innermost loop has returned sv.ret: count += ret, the
\* masks and the cell are undone, and the call returns if count >= limit
CountResume(sv) ==
    LET d == Len(sv.frames)
        f == sv.frames[d]
        r == sv.empty_cells[d][1]
        c == sv.empty_cells[d][2]
        count == f.count + sv.ret
        undone == UndoBit(sv.st, r, c, f.k)
    IN IF count >= sv.limit
       THEN [sv EXCEPT !.st = undone, !.frames = SubSeq(@, 1, d - 1), !.ret = count]
       ELSE [sv EXCEPT !.st = undone, !.frames[d] = [f EXCEPT !.k = f.k + 1,
                                                             !.count = count],
                       !.ret = NoRet]

\* ------------------------------------------------------------------------
\* Puzzle generation (both files): get_base_pattern, shuffle_board
\* ------------------------------------------------------------------------
pattern(r, c) == (3 * (r % 3) + (r \div 3) + c) % 9

\* nums is the list 1..9 after random.shuffle(nums) (a 1-indexed sequence here)
get_base_pattern(nums) ==
    TableBoard([r \in Idx |-> [c \in Idx |-> nums[pattern(r, c) + 1]]])

\* the six orders random.shuffle can leave a three-element block in
Perms3 == << <<0, 1, 2>>, <<0, 2, 1>>, <<1, 0, 2>>, <<1, 2, 0>>, <<2, 0, 1>>, <<2, 1, 0>> >>

\* mutant of ShuffleBlocks: the blocks start at rows 0, 2 and 4 (range(0, 6, 2)),
\* so a block straddles two bands of boxes; the later block is written last
ShuffleBlocks_straddle(bd, p1, p2, p3) ==
    LET s1 == [r \in Idx |-> IF r \in 0..2 THEN bd[p1[r + 1]] ELSE bd[r]]
        s2 == [r \in Idx |-> IF r \in 2..4 THEN s1[2 + p2[r - 1]] ELSE s1[r]]
    IN [r \in Idx |-> IF r \in 4..6 THEN s2[4 + p3[r - 3]] ELSE s2[r]]

\* for i in range(0, 9, 3): block = board[i:i+3]; shuffle(block); board[i:i+3] = block
\* p1, p2, p3 are the orders the three shuffles produce
ShuffleBlocks(bd, p1, p2, p3) ==
    Table9([r \in Idx |->
               LET p == IF r < 3 THEN p1 ELSE IF r < 6 THEN p2 ELSE p3
               IN bd[3 * (r \div 3) + p[(r % 3) + 1]]])

\* list(map(list, zip(*board)))
Transpose(bd) == TableBoard([r \in Idx |-> [c \in Idx |-> bd[c][r]]])

\* sh: the outcomes of the six random.shuffle calls, as indices into Perms3
shuffle_board(bd, sh) ==
    LET b1 == ShuffleBlocks(bd, Perms3[sh[1]], Perms3[sh[2]], Perms3[sh[3]])
        b2 == Transpose(b1)
        b3 == ShuffleBlocks(b2, Perms3[sh[4]], Perms3[sh[5]], Perms3[sh[6]])
    IN Transpose(b3)

\* target_holes / remove_count of a difficulty
TargetEasy == 30

TargetMedium == 45

TargetHard == 55

target_holes(diff) ==
    IF diff = "Easy" THEN TargetEasy
    ELSE IF diff = "Medium" THEN TargetMedium
    ELSE TargetHard

\* ------------------------------------------------------------------------
\* sudoku_hybrid.py: validation and helpers
\* ------------------------------------------------------------------------
\* mutant of is_valid: the row is tested, the column and the box are not
is_valid_row_only(bd, row, col, num) ==
    \A i \in Idx : ~(bd[row][i] = num /\ i # col)

is_valid(bd, row, col, num) ==
    /\ \A i \in Idx : ~(bd[row][i] = num /\ i # col)
    /\ \A i \in Idx : ~(bd[i][col] = num /\ i # row)
    /\ \A i \in 0..2, j \in 0..2 :
          LET br == 3 * (row \div 3)
              bc == 3 * (col \div 3)
          IN ~(bd[br + i][bc + j] = num /\ <<br + i, bc + j>> # <<row, col>>)

get_candidates(bd, row, col) ==
    IF bd[row][col] # 0 THEN {}
    ELSE (((1..9) \ {bd[row][i] : i \in Idx})
               \ {bd[i][col] : i \in Idx})
               \ {bd[3 * (row \div 3) + i][3 * (col \div 3) + j] : i \in 0..2, j \in 0..2}

\* the order in which "for num in candidates" visits a set of digits: Python
\* leaves the order of a set open; order names one of the orders modelled
SetOrders == {"asc", "desc"}

SetIter(S, order) ==
    LET asc == SelectSeq(<<1, 2, 3, 4, 5, 6, 7, 8, 9>>, LAMBDA d : d \in S)
    IN IF order = "asc" THEN asc
       ELSE [i \in 1..Len(asc) |-> asc[Len(asc) + 1 - i]]

\* ------------------------------------------------------------------------
\* sudoku_hybrid.py: the D&C phase
\* ------------------------------------------------------------------------
\* the two loops of solve_dnc_subgrid(board, sr, sc) from cell i of the box
\* on (r = sr + i // 3, c = sc + i % 3); the result is the board the call
\* leaves and the value it returns
RECURSIVE dnc_cells(_, _, _, _, _)
dnc_cells(bd, progress, sr, sc, i) ==
    IF i = 9 THEN [board |-> bd, progress |-> progress]
    ELSE IF bd[sr + (i \div 3)][sc + (i % 3)] = 0
            /\ Cardinality(get_candidates(bd, sr + (i \div 3), sc + (i % 3))) = 1
         THEN dnc_cells([bd EXCEPT ![sr + (i \div 3)][sc + (i % 3)] =
                             CHOOSE d \in get_candidates(bd, sr + (i \div 3), sc + (i % 3)) : TRUE],
                        TRUE, sr, sc, i + 1)
         ELSE dnc_cells(bd, progress, sr, sc, i + 1)

solve_dnc_subgrid(bd, sr, sc) == dnc_cells(bd, FALSE, sr, sc, 0)

\* the two for loops of solve_dnc_phase over the nine boxes, from box b on
RECURSIVE dnc_boxes(_, _, _)
dnc_boxes(bd, changed, b) ==
    IF b = 9 THEN [board |-> bd, changed |-> changed]
    ELSE LET sub == solve_dnc_subgrid(bd, 3 * (b \div 3), 3 * (b % 3))
         IN IF sub.progress THEN dnc_boxes(sub.board, TRUE, b + 1)
            ELSE dnc_boxes(sub.board, changed, b + 1)

\* mutant of solve_dnc_phase: "changed" is never set again, the while loop
\* ends after its first pass over the nine boxes
solve_dnc_phase_single_pass(bd) == dnc_boxes(bd, FALSE, 0).board

\* solve_dnc_phase(board): the board when the while loop ends
RECURSIVE solve_dnc_phase(_)
solve_dnc_phase(bd) ==
    LET pass == dnc_boxes(bd, FALSE, 0)
    IN IF pass.changed THEN solve_dnc_phase(pass.board) ELSE pass.board

\* ------------------------------------------------------------------------
\* sudoku_hybrid.py: bitmasks, MRV and the memoized search
\* ------------------------------------------------------------------------
init_bitmasks(bd) ==
    [row_mask |-> [r \in Idx |-> MaskOfValues(bd[r])],
     col_mask |-> [c \in Idx |-> MaskOfValues([r \in Idx |-> bd[r][c]])],
     box_mask |-> [b \in Idx |-> MaskOfValues(BoxValues(bd, b))]]

Mask9 == 511

\* m: the three mask arrays (row_mask, col_mask, box_mask)
candidates_bitmask(m, bd, row, col) ==
    IF bd[row][col] # 0 THEN 0
    ELSE LET box_id == (row \div 3) * 3 + (col \div 3)
             used == BitOr(BitOr(m.row_mask[row], m.col_mask[col]), m.box_mask[box_id])
         IN BitAnd(BitAndNot(Mask9, used), Mask9)

\* mutant of bitmask_to_set: digits.add(d) for digits.add(d + 1)
bitmask_to_set_off_by_one(mask) == {d : d \in {k \in Idx : BitAnd(mask, Shl1(k)) # 0}}

bitmask_to_set(mask) == {d + 1 : d \in {k \in Idx : BitAnd(mask, Shl1(k)) # 0}}

\* the inner loop of _find_mrv_cell_bitmask, "for c in range(9)", in row r from
\* column c on.  acc holds the locals best and best_count; done says that a
\* return statement was reached, and best is then the value returned
RECURSIVE mrv_cols(_, _, _, _, _)
\* mutant of mrv_cols: "if count <= best_count", which keeps the last minimum
mrv_cols_last_minimum(m, bd, r, c, acc) ==
    IF c = 9 THEN acc
    ELSE IF bd[r][c] # 0 THEN mrv_cols(m, bd, r, c + 1, acc)
    ELSE LET mask == candidates_bitmask(m, bd, r, c)
             count == PopCount(mask)
         IN IF count = 0
            THEN [best |-> <<r, c, {}>>, best_count |-> acc.best_count, done |-> TRUE]
            ELSE IF count <= acc.best_count
            THEN IF count = 1
                 THEN [best |-> <<r, c, bitmask_to_set(mask)>>, best_count |-> count,
                       done |-> TRUE]
                 ELSE mrv_cols(m, bd, r, c + 1,
                               [best |-> <<r, c, bitmask_to_set(mask)>>, best_count |-> count,
                                done |-> FALSE])
            ELSE mrv_cols(m, bd, r, c + 1, acc)

mrv_cols(m, bd, r, c, acc) ==
    IF c = 9 THEN acc
    ELSE IF bd[r][c] # 0 THEN mrv_cols(m, bd, r, c + 1, acc)
    ELSE LET mask == candidates_bitmask(m, bd, r, c)
             count == PopCount(mask)
         IN IF count = 0
            THEN [best |-> <<r, c, {}>>, best_count |-> acc.best_count, done |-> TRUE]
            ELSE IF count < acc.best_count
            THEN IF count = 1
                 THEN [best |-> <<r, c, bitmask_to_set(mask)>>, best_count |-> count,
                       done |-> TRUE]
                 ELSE mrv_cols(m, bd, r, c + 1,
                               [best |-> <<r, c, bitmask_to_set(mask)>>, best_count |-> count,
                                done |-> FALSE])
            ELSE mrv_cols(m, bd, r, c + 1, acc)

\* the outer loop, "for r in range(9)", from row r on
RECURSIVE mrv_rows(_, _, _, _)
mrv_rows(m, bd, r, acc) ==
    IF r = 9 THEN acc.best
    ELSE LET row == mrv_cols(m, bd, r, 0, acc)
         IN IF row.done THEN row.best ELSE mrv_rows(m, bd, r + 1, row)

MrvStartCount == 10

find_mrv_cell_bitmask(m, bd) ==
    mrv_rows(m, bd, 0, [best |-> None, best_count |-> MrvStartCount, done |-> FALSE])

\* self.dp_cache[state] = value on a dict kept as a set of <<state, value>>
CachePut(cache, state, value) == {e \in cache : e[1] # state} \cup {<<state, value>>}

CacheHas(cache, state) == \E e \in cache : e[1] = state

CacheGet(cache, state) == (CHOOSE e \in cache : e[1] = state)[2]

HPlace(st, row, col, num) ==
    LET bit == Shl1(num - 1)
        box_id == (row \div 3) * 3 + (col \div 3)
    IN [st EXCEPT !.board[row][col] = num,
                  !.row_mask[row] = BitOr(@, bit),
                  !.col_mask[col] = BitOr(@, bit),
                  !.box_mask[box_id] = BitOr(@, bit)]

HUndo(st, row, col, num) ==
    LET bit == Shl1(num - 1)
        box_id == (row \div 3) * 3 + (col \div 3)
    IN [st EXCEPT !.board[row][col] = 0,
                  !.row_mask[row] = BitAndNot(@, bit),
                  !.col_mask[col] = BitAndNot(@, bit),
                  !.box_mask[box_id] = BitAndNot(@, bit)]

\* _solve_dp_helper and its loop.  st is (board, row_mask, col_mask, box_mask,
\* dp_cache) on entry; the result is the value returned (a board or None)
\* and the same five on return.  state is the tuple taken on entry, nums the
\* candidates in iteration order, j the position of the loop.
RECURSIVE solve_dp_helper(_, _), solve_dp_loop(_, _, _, _, _, _, _)
solve_dp_helper(st, order) ==
    LET state == st.board
    IN IF CacheHas(st.dp_cache, state)
       THEN [ret |-> CacheGet(st.dp_cache, state), st |-> st]
       ELSE LET mrv == find_mrv_cell_bitmask(st, st.board)
            IN IF mrv = None
               THEN [ret |-> st.board,
                     st |-> [st EXCEPT !.dp_cache = CachePut(@, state, st.board)]]
               ELSE IF mrv[3] = {}
               THEN [ret |-> None,
                     st |-> [st EXCEPT !.dp_cache = CachePut(@, state, None)]]
               ELSE solve_dp_loop(st, order, state, mrv[1], mrv[2], SetIter(mrv[3], order), 1)

solve_dp_loop(s, order, state, row, col, nums, j) ==
    IF j > Len(nums)
    THEN [ret |-> None, st |-> [s EXCEPT !.dp_cache = CachePut(@, state, None)]]
    ELSE LET sub == solve_dp_helper(HPlace(s, row, col, nums[j]), order)
         IN IF sub.ret # None
            THEN [ret |-> sub.ret,
                  st |-> [sub.st EXCEPT !.dp_cache = CachePut(@, state, sub.ret)]]
            ELSE solve_dp_loop(HUndo(sub.st, row, col, nums[j]), order, state, row, col,
                               nums, j + 1)

solve_dp_state(bd, order) ==
    LET m == init_bitmasks(bd)
    IN solve_dp_helper([board |-> bd, row_mask |-> m.row_mask, col_mask |-> m.col_mask,
                        box_mask |-> m.box_mask, dp_cache |-> {}], order)

solve_dp(bd, order) == solve_dp_state(bd, order).ret

\* solve_hybrid(board_snapshot): works on a deep copy
solve_hybrid(board_snapshot, order) == solve_dp(solve_dnc_phase(board_snapshot), order)

\* ------------------------------------------------------------------------
\* sudoku_hybrid.py: the priority queue of the AI and its move
\* ------------------------------------------------------------------------
is_complete(bd) == \A i \in Idx, j \in Idx : bd[i][j] # 0

\* the order of Python on the tuples (count, r, c)
TupleLess(a, b) ==
    \/ a[1] < b[1]
    \/ (a[1] = b[1] /\ a[2] < b[2])
    \/ (a[1] = b[1] /\ a[2] = b[2] /\ a[3] < b[3])

\* self.pq is a heapq of tuples: pq[0] is its least tuple and heappop removes
\* it, so the heap is kept here as the ascending list of its entries (an
\* entry may be there several times).  heap_push_all(q, news) is q after a
\* heappush of every tuple of the list news.
heap_push_all(q, news) == SortSeq(q \o news, TupleLess)

\* the tuples pushed for the cells of a list: (len(candidates), r, c), for
\* the empty cells that have a candidate
PqEntries(bd, cell_list) ==
    LET open == SelectSeq(cell_list,
                          LAMBDA p : bd[p[1]][p[2]] = 0 /\ get_candidates(bd, p[1], p[2]) # {})
    IN SelectSeq([i \in 1..Len(open) |->
                     <<Cardinality(get_candidates(bd, open[i][1], open[i][2])),
                       open[i][1], open[i][2]>>],
                 LAMBDA e : TRUE)

\* initialize_priority_queue: self.pq after the scan of the board bd
initialize_priority_queue(bd) == heap_push_all(<<>>, PqEntries(bd, RowMajor))

\* the set neighbours of update_neighbors, without (row, col) itself
Neighbours(row, col) ==
    SelectSeq(RowMajor,
              LAMBDA p : /\ p # <<row, col>>
                         /\ \/ p[1] = row
                            \/ p[2] = col
                            \/ (p[1] \div 3 = row \div 3 /\ p[2] \div 3 = col \div 3))

\* update_neighbors(row, col): self.pq after it, bd being self.board and q self.pq
update_neighbors(bd, q, row, col) == heap_push_all(q, PqEntries(bd, Neighbours(row, col)))

\* "while self.pq and self.board[self.pq[0][1]][self.pq[0][2]] != 0: heappop"
clean_stale(q, bd) ==
    LET live == {i \in 1..Len(q) : bd[q[i][2]][q[i][3]] = 0}
    IN IF live = {} THEN <<>>
       ELSE SubSeq(q, CHOOSE i \in live : \A j \in live : i <= j, Len(q))

\* what solve_hybrid returns and the masks and the cache it leaves in the
\* object h, out being the outcome of solve_dp on the propagated copy
hybrid_outcome(h, out) ==
    [ret |-> out.ret,
     hs  |-> [h EXCEPT !.board = out.st.board, !.row_mask = out.st.row_mask,
                       !.col_mask = out.st.col_mask, !.box_mask = out.st.box_mask,
                       !.dp_cache = out.st.dp_cache]]

\* solve_hybrid on the game object h
solve_hybrid_on(h, bd, order) ==
    hybrid_outcome(h, solve_dp_state(solve_dnc_phase(bd), order))

\* mutant of ai_pick: the stale entries are not discarded
ai_pick_keeps_stale(q, bd) ==
    [rescan |-> q = <<>> /\ ~is_complete(bd),
     pq |-> IF q = <<>> /\ ~is_complete(bd) THEN initialize_priority_queue(bd) ELSE q]

\* mutant of ai_pick: an empty queue is not rebuilt
ai_pick_no_rescan(q, bd) == [rescan |-> FALSE, pq |-> clean_stale(q, bd)]

\* "if not self.pq and not self.is_complete(): self.initialize_priority_queue()",
\* q1 being the queue without its stale head entries
rescan_if_empty(q1, bd) ==
    [rescan |-> q1 = <<>> /\ ~is_complete(bd),
     pq |-> IF q1 = <<>> /\ ~is_complete(bd) THEN initialize_priority_queue(bd) ELSE q1]

\* ai_make_move up to "if not self.pq": the queue it decides on, and whether
\* it was rebuilt by initialize_priority_queue
ai_pick(q, bd) == rescan_if_empty(clean_stale(q, bd), bd)

\* the end of ai_make_move when solve_hybrid returned a board: filled is
\* self.board with the digit written, rest the queue after the pop
move_filled(pick, filled, rest, hs) ==
    [ret |-> TRUE, at |-> "filled", cell |-> <<pick.pq[1][2], pick.pq[1][3]>>,
     rescan |-> pick.rescan, board |-> filled,
     pq |-> update_neighbors(filled, rest, pick.pq[1][2], pick.pq[1][3]), hs |-> hs]

\* ai_make_move from the pop on, out being what solve_hybrid gave
move_popped(bd, pick, out) ==
    IF out.ret # None
    THEN move_filled(pick,
                     [bd EXCEPT ![pick.pq[1][2]][pick.pq[1][3]] =
                                    out.ret[pick.pq[1][2]][pick.pq[1][3]]],
                     Tail(pick.pq), out.hs)
    ELSE [ret |-> FALSE, at |-> "no_solution", cell |-> <<pick.pq[1][2], pick.pq[1][3]>>,
          rescan |-> pick.rescan, board |-> bd, pq |-> Tail(pick.pq), hs |-> out.hs]

\* ai_make_move from "if not self.pq" on
move_decided(h, bd, pick, order) ==
    IF pick.pq = <<>>
    THEN [ret |-> FALSE, at |-> "no_entry", cell |-> None, rescan |-> pick.rescan,
          board |-> bd, pq |-> pick.pq, hs |-> h]
    ELSE move_popped(bd, pick, solve_hybrid_on(h, bd, order))

\* ai_make_move: ret is what it returns, at is the return statement reached
\* ("no_entry": line 393, "filled": line 412, "no_solution": line 414), cell
\* is the cell popped, board, pq and hs are self.board, self.pq and the
\* solver fields after it
ai_make_move(h, bd, q, order) == move_decided(h, bd, ai_pick(q, bd), order)

\* ------------------------------------------------------------------------
\* What a valid grid and a completion are (section 3 of the specification)
\* ------------------------------------------------------------------------
AllCells == {<<r, c>> : r \in Idx, c \in Idx}

SameUnit(p, q) ==
    \/ p[1] = q[1]
    \/ p[2] = q[2]
    \/ (p[1] \div 3 = q[1] \div 3 /\ p[2] \div 3 = q[2] \div 3)

\* the cells that share a row, a column or a box with p
Peers == [p \in AllCells |-> {q \in AllCells : q # p /\ SameUnit(p, q)}]

\* no two distinct cells of a row, column or box hold the same non-zero digit
SudokuInvariant(g) ==
    \A p \in AllCells : g[p[1]][p[2]] # 0 =>
        \A q \in Peers[p] : g[q[1]][q[2]] # g[p[1]][p[2]]

IsBoard(g) == DOMAIN g = Idx /\ \A r \in Idx : DOMAIN g[r] = Idx

Complete(g) == \A p \in AllCells : g[p[1]][p[2]] \in 1..9

Agrees(g, f) == \A p \in AllCells : g[p[1]][p[2]] # 0 => f[p[1]][p[2]] = g[p[1]][p[2]]

\* digits that occur nowhere else in the row, column and box of p
Legal(g, p) == (1..9) \ {g[q[1]][q[2]] : q \in Peers[p]}

\* the valid completions of g, enumerated until cap of them are known.  A
\* cell with one legal digit holds it in every completion, so all such cells
\* are filled together; when none is left, the first cell with the fewest
\* legal digits is branched on.
RECURSIVE CompletionsCap(_, _, _), CompletionsLoop(_, _, _, _, _)
CompletionsCap(g, cap, acc) ==
    IF Cardinality(acc) >= cap THEN acc
    ELSE LET E == {p \in AllCells : g[p[1]][p[2]] = 0}
             L == [p \in E |-> Legal(g, p)]
             forced == {p \in E : Cardinality(L[p]) = 1}
         IN IF E = {} THEN acc \cup {g}
            ELSE IF \E p \in E : L[p] = {} THEN acc
            ELSE IF forced # {}
            THEN IF \E p \in forced : \E q \in Peers[p] \cap forced : L[p] = L[q]
                 THEN acc
                 ELSE CompletionsCap(TableBoard([r \in Idx |-> [c \in Idx |->
                                         IF <<r, c>> \in forced
                                         THEN CHOOSE d \in L[<<r, c>>] : TRUE
                                         ELSE g[r][c]]]),
                                     cap, acc)
            ELSE LET best == CHOOSE p \in E :
                                \A q \in E : Cardinality(L[p]) <= Cardinality(L[q])
                 IN CompletionsLoop(g, cap, acc, best, SetIter(L[best], "asc"))

CompletionsLoop(g, cap, acc, p, ds) ==
    IF Len(ds) = 0 THEN acc
    ELSE CompletionsLoop(g, cap,
                         CompletionsCap([g EXCEPT ![p[1]][p[2]] = Head(ds)], cap, acc),
                         p, Tail(ds))

Completions(g, cap) ==
    IF SudokuInvariant(g) THEN CompletionsCap(TableBoard(g), cap, {}) ELSE {}

\* ------------------------------------------------------------------------
\* The solver functions applied to bounded inputs
\* ------------------------------------------------------------------------
IdentityNums == <<1, 2, 3, 4, 5, 6, 7, 8, 9>>

NoShuffle == <<1, 1, 1, 1, 1, 1>>

\* a grid generate_puzzle can make: nums left in order, every block left in order
FnSolved == shuffle_board(get_base_pattern(IdentityNums), NoShuffle)

\* the cells of rows 0..2 and columns 0, 3, 6: they hold 1, 4, 7 as a Latin square
WinCells == << <<0, 0>>, <<0, 3>>, <<0, 6>>, <<1, 0>>, <<1, 3>>, <<1, 6>>,
               <<2, 0>>, <<2, 3>>, <<2, 6>> >>

EditCells == << <<1, 3>>, <<0, 6>>, <<2, 0>> >>

EditDigits == {1, 4, 7}

Punch(g, H) ==
    TableBoard([r \in Idx |-> [c \in Idx |-> IF <<r, c>> \in H THEN 0 ELSE g[r][c]]])

InputGrids ==
    LET W == {WinCells[i] : i \in 1..MaxWindow}
        punched == {Punch(FnSolved, H) : H \in SUBSET W}
    IN punched \cup
       {[g EXCEPT ![EditCells[i][1]][EditCells[i][2]] = d] :
            g \in punched, i \in 1..MaxEditCells, d \in EditDigits}

CandCells == {WinCells[i] : i \in 1..MaxWindow}

FnInit ==
    /\ pc = "fn"
    /\ difficulty = "Medium"
    /\ board = ZeroBoard
    /\ initial_board = ZeroBoard
    /\ solution_board = ZeroBoard
    /\ cells = <<>>
    /\ ci = 0
    /\ holes = 0
    /\ backup = 0
    /\ solver = IdleSolver
    /\ variant = "none"
    /\ arg \in InputGrids
    /\ op = <<"none">>
    /\ res = None
    /\ hsolver = IdleHybrid
    /\ NoGame

FnFrame == UNCHANGED <<pc, difficulty, board, initial_board, solution_board, cells, ci,
                       holes, backup, solver, variant, arg, others>>

\* BitmaskSolver().solve(copy.deepcopy(arg))
ApplySolve ==
    /\ pc = "fn" /\ op = <<"none">>
    /\ op' = <<"solve">>
    /\ res' = [ret |-> solve(arg), st |-> solve_state(arg).st]
    /\ FnFrame

\* solve_hybrid(arg)
ApplySolveHybrid ==
    /\ pc = "fn" /\ op = <<"none">>
    /\ \E order \in SetOrders :
          /\ op' = <<"solve_hybrid", order>>
          /\ res' = [ret |-> solve_hybrid(arg, order)]
    /\ FnFrame

\* BitmaskSolver().count_solutions(copy.deepcopy(arg), limit)
ApplyCountSolutions ==
    /\ pc = "fn" /\ op = <<"none">>
    /\ \E limit \in 1..MaxLimit :
          /\ op' = <<"count_solutions", limit>>
          /\ res' = count_solutions_state(arg, limit)
    /\ FnFrame

\* _init_bitmasks(arg); _find_mrv_cell_bitmask(arg)
ApplyFindMrv ==
    /\ pc = "fn" /\ op = <<"none">>
    /\ op' = <<"find_mrv">>
    /\ res' = [ret |-> find_mrv_cell_bitmask(init_bitmasks(arg), arg)]
    /\ FnFrame

\* _init_bitmasks(arg); _bitmask_to_set(_candidates_bitmask(arg, r, c)) and
\* get_candidates(arg, r, c)
ApplyCandidates ==
    /\ pc = "fn" /\ op = <<"none">>
    /\ \E p \in CandCells :
          /\ op' = <<"candidates", p[1], p[2]>>
          /\ res' = [mask |-> candidates_bitmask(init_bitmasks(arg), arg, p[1], p[2]),
                     digits |-> bitmask_to_set(
                                   candidates_bitmask(init_bitmasks(arg), arg, p[1], p[2])),
                     set  |-> get_candidates(arg, p[1], p[2])]
    /\ FnFrame

\* board = copy.deepcopy(arg); solve_dnc_phase(board), and solve_dnc_phase(board)
\* once more on the same list
ApplyDncPhase ==
    /\ pc = "fn" /\ op = <<"none">>
    /\ op' = <<"solve_dnc_phase">>
    /\ res' = [once |-> solve_dnc_phase(arg),
               twice |-> solve_dnc_phase(solve_dnc_phase(arg))]
    /\ FnFrame

FnNext ==
    \/ ApplySolve
    \/ ApplySolveHybrid
    \/ ApplyCountSolutions
    \/ ApplyFindMrv
    \/ ApplyCandidates
    \/ ApplyDncPhase

SpecFn == FnInit /\ [][FnNext]_vars

\* ------------------------------------------------------------------------
\* Claims about the solver functions (checked under SpecFn)
\* ------------------------------------------------------------------------
EmptyCells(g) == {p \in AllCells : g[p[1]][p[2]] = 0}

\* p comes before q in row-major order
Before(p, q) == p[1] < q[1] \/ (p[1] = q[1] /\ p[2] < q[2])

Solved(o) == o[1] \in {"solve", "solve_hybrid"}

\* C5: on a grid that satisfies the Sudoku invariant, solve and solve_hybrid
\* return None exactly when the grid has no valid completion, and otherwise a
\* complete grid that satisfies the invariant and agrees with the input on
\* every cell that was filled.
C5_SolveSoundAndComplete ==
    (pc = "fn" /\ Solved(op) /\ SudokuInvariant(arg)) =>
        /\ (res.ret = None) <=> (Completions(arg, 1) = {})
        /\ (res.ret # None) =>
              /\ IsBoard(res.ret)
              /\ Complete(res.ret)
              /\ SudokuInvariant(res.ret)
              /\ Agrees(arg, res.ret)

\* C5 witness: solve_hybrid returned None for a grid that satisfies the
\* invariant and in which every empty cell still has a candidate
C5_Witness ==
    /\ pc = "fn" /\ op[1] = "solve_hybrid"
    /\ SudokuInvariant(arg)
    /\ EmptyCells(arg) # {}
    /\ \A p \in EmptyCells(arg) : Legal(arg, p) # {}
    /\ res.ret = None

\* C6: count_solutions(grid, limit) returns a value in 0..limit.
C6_CountWithinLimit ==
    (pc = "fn" /\ op[1] = "count_solutions") => res.ret \in 0..op[2]

\* C7: on a grid that satisfies the invariant and has n completions,
\* count_solutions(grid, limit) returns n when n < limit and a value >= limit
\* when n >= limit (n is counted up to limit + 1, which decides both cases);
\* so count_solutions(grid, 2) = 1 exactly when the completion is unique.
C7_CountExactBelowLimit ==
    (pc = "fn" /\ op[1] = "count_solutions" /\ SudokuInvariant(arg)) =>
        LET n == Cardinality(Completions(arg, op[2] + 1))
        IN /\ (n < op[2]) => (res.ret = n)
           /\ (n >= op[2]) => (res.ret >= op[2])
           /\ (op[2] = 2) => ((res.ret = 1) <=> (n = 1))

\* C7 witness: a grid with exactly two completions counted with limit 3
C7_Witness ==
    /\ pc = "fn" /\ op = <<"count_solutions", 3>>
    /\ SudokuInvariant(arg)
    /\ Cardinality(Completions(arg, 4)) = 2
    /\ res.ret = 2

\* C8: when some empty cell has zero candidates, _find_mrv_cell_bitmask
\* returns a zero-candidate cell with an empty candidate set (stated here for
\* the grids that satisfy the invariant, where it already fails).
C8_ZeroCandidateCellReturned ==
    (pc = "fn" /\ op[1] = "find_mrv" /\ SudokuInvariant(arg)
        /\ \E p \in EmptyCells(arg) : Legal(arg, p) = {}) =>
        /\ res.ret # None
        /\ res.ret[3] = {}
        /\ <<res.ret[1], res.ret[2]>> \in EmptyCells(arg)
        /\ Legal(arg, <<res.ret[1], res.ret[2]>>) = {}

\* C9: _find_mrv_cell_bitmask returns None exactly when the grid has no empty
\* cell; when there are empty cells and none has zero candidates, it returns
\* the row-major first of the empty cells with the fewest candidates, with
\* that cell's candidate set.
C9_MrvFirstMinimum ==
    (pc = "fn" /\ op[1] = "find_mrv") =>
        /\ (res.ret = None) <=> (EmptyCells(arg) = {})
        /\ (EmptyCells(arg) # {} /\ \A p \in EmptyCells(arg) : Legal(arg, p) # {}) =>
              LET cell == <<res.ret[1], res.ret[2]>>
              IN /\ cell \in EmptyCells(arg)
                 /\ res.ret[3] = Legal(arg, cell)
                 /\ \A q \in EmptyCells(arg) :
                       \/ Cardinality(Legal(arg, q)) > Cardinality(Legal(arg, cell))
                       \/ (Cardinality(Legal(arg, q)) = Cardinality(Legal(arg, cell))
                             /\ ~Before(q, cell))

\* C9 witness: the minimum is two candidates or more and two cells share it
C9_Witness ==
    /\ pc = "fn" /\ op[1] = "find_mrv"
    /\ res.ret # None
    /\ Cardinality(res.ret[3]) >= 2
    /\ \E q \in EmptyCells(arg) :
          /\ q # <<res.ret[1], res.ret[2]>>
          /\ Cardinality(Legal(arg, q)) = Cardinality(res.ret[3])

\* C10: with the masks of _init_bitmasks, the digit set of _candidates_bitmask
\* equals get_candidates and equals the digits that occur nowhere in the row,
\* column and box of the cell; both are empty for a filled cell.
C10_CandidatesAgree ==
    (pc = "fn" /\ op[1] = "candidates") =>
        LET p == <<op[2], op[3]>>
        IN /\ res.digits = res.set
           /\ (arg[p[1]][p[2]] # 0) => (res.mask = 0 /\ res.set = {})
           /\ (arg[p[1]][p[2]] = 0) => (res.set = Legal(arg, p))

\* C10 witness: an empty cell with two candidates or more
C10_Witness ==
    /\ pc = "fn" /\ op[1] = "candidates"
    /\ arg[op[2]][op[3]] = 0
    /\ Cardinality(res.set) >= 2
    /\ res.digits = res.set

\* C11: solve_dnc_phase is idempotent: a second run on the result of the first
\* places nothing, so the grid after two runs equals the grid after one, and
\* in the grid it returns no empty cell has exactly one candidate.
C11_DncPhaseIdempotent ==
    (pc = "fn" /\ op[1] = "solve_dnc_phase") =>
        /\ res.twice = res.once
        /\ \A p \in EmptyCells(res.once) : Cardinality(Legal(res.once, p)) # 1

\* C11 witness: the first pass over the nine boxes placed digits and left a
\* cell that a later pass filled
C11_Witness ==
    /\ pc = "fn" /\ op[1] = "solve_dnc_phase"
    /\ dnc_boxes(arg, FALSE, 0).board # arg
    /\ dnc_boxes(arg, FALSE, 0).board # res.once
    /\ res.twice = res.once

\* C16: a grid that holds the same non-zero digit twice in a row, column or
\* box is rejected by solve and by solve_hybrid: no grid is returned for it,
\* and every grid that is returned satisfies the Sudoku invariant.
C16_InvalidGridRejected ==
    (pc = "fn" /\ Solved(op)) =>
        /\ ~SudokuInvariant(arg) => res.ret = None
        /\ res.ret # None => SudokuInvariant(res.ret)

\* ------------------------------------------------------------------------
\* The reference grid: shuffle_board(get_base_pattern()) over bounded choices
\* ------------------------------------------------------------------------
\* outcomes of random.shuffle(nums): rotations of 1..9 (even k) and rotations
\* of 9..1 (odd k)
NumsOf(k) ==
    [i \in 1..9 |-> IF k % 2 = 0 THEN ((i - 1 + k) % 9) + 1 ELSE ((9 - i + k) % 9) + 1]

\* outcomes of the six block shuffles: every combination of the six orders
ShuffleOutcomes == [1..6 -> 1..6]

\* arg is the grid get_base_pattern() returned
ShInit ==
    /\ pc = "shuffle"
    /\ difficulty = "Medium"
    /\ board = ZeroBoard
    /\ initial_board = ZeroBoard
    /\ solution_board = ZeroBoard
    /\ cells = <<>>
    /\ ci = 0
    /\ holes = 0
    /\ backup = 0
    /\ solver = IdleSolver
    /\ variant = "none"
    /\ \E k \in 0..(MaxNums - 1) : arg = get_base_pattern(NumsOf(k))
    /\ op = <<"none">>
    /\ res = None
    /\ hsolver = IdleHybrid
    /\ NoGame

\* full_board = self.shuffle_board(arg)
ApplyShuffleBoard ==
    /\ pc = "shuffle" /\ op = <<"none">>
    /\ \E sh \in ShuffleOutcomes :
          /\ op' = <<"shuffle_board", sh>>
          /\ board' = shuffle_board(arg, sh)
    /\ UNCHANGED <<pc, difficulty, initial_board, solution_board, cells, ci, holes,
                   backup, solver, variant, arg, res, others>>

ShNext == ApplyShuffleBoard

SpecShuffle == ShInit /\ [][ShNext]_vars

\* C3: the grid returned by shuffle_board(get_base_pattern()) has no empty
\* cell, and every row, every column and every 3x3 box holds each digit 1..9
\* exactly once (nine cells whose digits are exactly the set 1..9).
C3_ShuffledPatternValid ==
    (pc = "shuffle" /\ op[1] = "shuffle_board") =>
        /\ IsBoard(board)
        /\ \A p \in AllCells : board[p[1]][p[2]] # 0
        /\ \A r \in Idx : {board[r][c] : c \in Idx} = 1..9
        /\ \A c \in Idx : {board[r][c] : r \in Idx} = 1..9
        /\ \A b \in Idx :
              {board[3 * (b \div 3) + i][3 * (b % 3) + j] : i \in 0..2, j \in 0..2} = 1..9

\* C3 witness: a shuffled digit list and six shuffles that all moved their block
C3_Witness ==
    /\ pc = "shuffle" /\ op[1] = "shuffle_board"
    /\ arg = get_base_pattern(NumsOf(1))
    /\ \A i \in 1..6 : op[2][i] \in {4, 5}
    /\ board[0][0] # arg[0][0]
    /\ \A r \in Idx : {board[r][c] : c \in Idx} = 1..9

\* ------------------------------------------------------------------------
\* generate_puzzle / new_game of both files over bounded random choices
\* ------------------------------------------------------------------------
Difficulties == {"Easy", "Medium", "Hard"}

\* outcomes of the three kinds of shuffle of one generate_puzzle call: k for
\* nums (NumsOf), sh for the six block shuffles, and for the cells the order
\* in which the i-th cell visited is number (a + s * i) % 81, cell number n
\* being <<n \div 9, n % 9>> (every s here is coprime to 81)
GenRuns ==
    << [k |-> 2, sh |-> <<1, 3, 6, 3, 6, 6>>, a |-> 49, s |-> 26],
       [k |-> 0, sh |-> <<6, 4, 4, 5, 3, 5>>, a |-> 56, s |-> 26],
       [k |-> 4, sh |-> <<3, 6, 1, 5, 3, 4>>, a |-> 29, s |-> 26],
       [k |-> 4, sh |-> <<6, 6, 3, 2, 5, 5>>, a |-> 34, s |-> 10],
       [k |-> 5, sh |-> <<2, 5, 5, 1, 4, 1>>, a |-> 19, s |-> 53] >>

CellOrder(a, s) ==
    [i \in 1..81 |-> LET n == (a + s * (i - 1)) % 81 IN <<n \div 9, n % 9>>]

NumEmpty(g) == Cardinality({p \in AllCells : g[p[1]][p[2]] = 0})

\* mutant of carve_decide: "if solutions == 0" reverts, two solutions or more pass
carve_decide_accepts_ambiguous(bd, h, r, c, saved, solutions) ==
    IF solutions = 0
    THEN [board |-> [bd EXCEPT ![r][c] = saved], holes |-> h]
    ELSE [board |-> bd, holes |-> h + 1]

\* mutant of carve_decide: a rejected cell is left empty
carve_decide_no_restore(bd, h, r, c, saved, solutions) ==
    IF solutions # 1
    THEN [board |-> bd, holes |-> h]
    ELSE [board |-> bd, holes |-> h + 1]

\* the end of one pass of "for r, c in cells" in sudoku_dp.py: bd is self.board
\* with cell (r, c) emptied, h is holes, saved is backup; the result is
\* self.board and holes after the pass
carve_decide(bd, h, r, c, saved, solutions) ==
    IF solutions # 1
    THEN [board |-> [bd EXCEPT ![r][c] = saved], holes |-> h]
    ELSE [board |-> bd, holes |-> h + 1]

\* remove_count of sudoku_hybrid.py: 30, 45 and 55 as in sudoku_dp.py, and 40
\* for any other difficulty
RemoveDefault == 40

remove_count(diff) ==
    IF diff = "Easy" THEN TargetEasy
    ELSE IF diff = "Medium" THEN TargetMedium
    ELSE IF diff = "Hard" THEN TargetHard
    ELSE RemoveDefault

\* for i in range(remove_count): r, c = cells[i]; self.board[r][c] = 0
hybrid_remove(bd, order, n) == Punch(bd, {order[i] : i \in 1..n})

\* the fields as the constructor sets them, before its call of new_game; a
\* behaviour follows one call of generate_puzzle, which keeps nothing of the
\* game before it
GenInit ==
    /\ pc = "idle"
    /\ difficulty = "Medium"
    /\ board = ZeroBoard
    /\ initial_board = ZeroBoard
    /\ solution_board = ZeroBoard
    /\ cells = <<>>
    /\ ci = 0
    /\ holes = 0
    /\ backup = 0
    /\ solver = IdleSolver
    /\ variant \in {"dp", "hybrid"}
    /\ arg = ZeroBoard
    /\ op = <<"none">>
    /\ res = None
    /\ hsolver = IdleHybrid
    /\ NoGame

\* sudoku_dp.py: on_difficulty_change / new_game enter generate_puzzle, up
\* to the first pass of the carving loop
DpGenerateBegin ==
    /\ pc = "idle" /\ variant = "dp"
    /\ \E diff \in Difficulties, i \in 1..MaxRuns :
          LET run == GenRuns[i]
              full_board == shuffle_board(get_base_pattern(NumsOf(run.k)), run.sh)
          IN /\ difficulty' = diff
             /\ solution_board' = full_board
             /\ board' = full_board
             /\ cells' = CellOrder(run.a, run.s)
    /\ ci' = 0
    /\ holes' = 0
    /\ pc' = "carve"
    /\ UNCHANGED <<initial_board, backup, solver, variant, arg, op, res, others>>

\* sudoku_dp.py: a pass of the carving loop, up to the loop of the first
\* _backtrack_count of solver.count_solutions(copy.deepcopy(self.board), limit=2)
DpCarveTry ==
    /\ pc = "carve"
    /\ ci < 81
    /\ ~(holes >= target_holes(difficulty))
    /\ LET r == cells[ci + 1][1]
           c == cells[ci + 1][2]
           tried == [board EXCEPT ![r][c] = 0]
       IN /\ backup' = board[r][c]
          /\ board' = tried
          /\ solver' = CountCall(tried, 2)
    /\ pc' = "count"
    /\ UNCHANGED <<difficulty, initial_board, solution_board, cells, ci, holes, variant,
                   arg, op, res, others>>

\* inside count_solutions: the innermost loop goes on
CountStep ==
    /\ pc = "count"
    /\ solver.ret = NoRet
    /\ solver' = CountAdvance(solver)
    /\ UNCHANGED <<pc, difficulty, board, initial_board, solution_board, cells, ci, holes,
                   backup, variant, arg, op, res, others>>

\* inside count_solutions: a call returns to the loop that made it
CountReturn ==
    /\ pc = "count"
    /\ solver.ret # NoRet
    /\ solver.frames # <<>>
    /\ solver' = CountResume(solver)
    /\ UNCHANGED <<pc, difficulty, board, initial_board, solution_board, cells, ci, holes,
                   backup, variant, arg, op, res, others>>

\* count_solutions returns to generate_puzzle: the rest of the pass
DpCarveDecide ==
    /\ pc = "count"
    /\ solver.ret # NoRet
    /\ solver.frames = <<>>
    /\ LET out == carve_decide(board, holes, cells[ci + 1][1], cells[ci + 1][2], backup,
                               solver.ret)
       IN /\ board' = out.board
          /\ holes' = out.holes
    /\ ci' = ci + 1
    /\ pc' = "carve"
    /\ solver' = IdleSolver
    /\ UNCHANGED <<difficulty, initial_board, solution_board, cells, backup, variant, arg,
                   op, res, others>>

\* sudoku_dp.py: the loop ends (break, or cells exhausted), generate_puzzle
\* returns self.board and new_game copies it to initial_board
DpGenerateReturn ==
    /\ pc = "carve"
    /\ (ci = 81 \/ holes >= target_holes(difficulty))
    /\ initial_board' = board
    /\ pc' = "returned"
    /\ UNCHANGED <<difficulty, board, solution_board, cells, ci, holes, backup, solver,
                   variant, arg, op, res, others>>

\* sudoku_hybrid.py: on_difficulty_change / new_game with generate_puzzle
HybridNewGame ==
    /\ pc = "idle" /\ variant = "hybrid"
    /\ \E diff \in Difficulties, i \in 1..MaxRuns :
          LET run == GenRuns[i]
              full_board == shuffle_board(get_base_pattern(NumsOf(run.k)), run.sh)
              order == CellOrder(run.a, run.s)
              puzzle == hybrid_remove(full_board, order, remove_count(diff))
          IN /\ difficulty' = diff
             /\ solution_board' = full_board
             /\ board' = puzzle
             /\ initial_board' = puzzle
             /\ cells' = order
             /\ pq' = initialize_priority_queue(puzzle)
    /\ game_over' = FALSE
    /\ locked' = {}
    /\ pc' = "returned"
    /\ UNCHANGED <<ci, holes, backup, solver, variant, arg, op, res, hsolver, pending,
                   nturns>>

GenNext ==
    \/ DpGenerateBegin
    \/ DpCarveTry
    \/ CountStep
    \/ CountReturn
    \/ DpCarveDecide
    \/ DpGenerateReturn
    \/ HybridNewGame

SpecGen == GenInit /\ [][GenNext]_vars

\* ------------------------------------------------------------------------
\* Claims about the generated puzzles (checked under SpecGen)
\* ------------------------------------------------------------------------
CellAt(g, p) == g[p[1]][p[2]]

C2_HybridPuzzleUnique ==
    (pc = "returned" /\ variant = "hybrid") => Completions(board, 2) = {solution_board}

\* C4: in the board generate_puzzle returns, every non-empty cell holds the
\* digit of solution_board and at most target cells are empty (30, 45, 55); in
\* sudoku_dp.py the loop ends with holes = target or with all 81 cells visited,
\* the pass that reaches the target is the last one, and between passes every
\* visited cell is either empty and counted in holes or holds its original
\* digit again.
C4_HolesWithinTarget ==
    /\ (pc = "returned") =>
          /\ \A p \in AllCells : CellAt(board, p) # 0 => CellAt(board, p) = CellAt(solution_board, p)
          /\ NumEmpty(board) <= target_holes(difficulty)
          /\ difficulty = "Easy" => NumEmpty(board) <= 30
          /\ difficulty = "Medium" => NumEmpty(board) <= 45
          /\ difficulty = "Hard" => NumEmpty(board) <= 55
    /\ (pc = "returned" /\ variant = "dp") =>
          /\ (holes = target_holes(difficulty) \/ ci = 81)
          /\ (holes = target_holes(difficulty)) => CellAt(board, cells[ci]) = 0
    /\ (pc \in {"carve", "returned"} /\ variant = "dp") =>
          /\ holes <= target_holes(difficulty)
          /\ NumEmpty(board) = holes
          /\ \A i \in 1..81 :
                \/ CellAt(board, cells[i]) = CellAt(solution_board, cells[i])
                \/ (i <= ci /\ CellAt(board, cells[i]) = 0)

\* C4 witness: the loop of sudoku_dp.py visited all 81 cells without reaching
\* the target, with rejected removals on the way
C4_Witness ==
    /\ pc = "returned" /\ variant = "dp"
    /\ ci = 81
    /\ holes < target_holes(difficulty)
    /\ NumEmpty(board) = holes
    /\ \A p \in AllCells : CellAt(board, p) # 0 => CellAt(board, p) = CellAt(solution_board, p)

\* ------------------------------------------------------------------------
\* The searches run one step at a time, on a solver that made calls before
\* ------------------------------------------------------------------------
\* number of earlier calls whose leftovers (masks, cache) a search starts on
MaxPrev == 2

\* the grids the searches are run on step by step: as InputGrids, with the
\* first MaxSearchWindow cells of WinCells
MaxSearchWindow == 7

SearchGrids ==
    LET W == {WinCells[i] : i \in 1..MaxSearchWindow}
        punched == {Punch(FnSolved, H) : H \in SUBSET W}
    IN punched \cup
       {[g EXCEPT ![EditCells[i][1]][EditCells[i][2]] = d] :
            g \in punched, i \in 1..MaxEditCells, d \in EditDigits}

\* mutant of reset_masks: the three assignments are missing, the masks of the
\* call before stay
reset_masks_keeps(st) == st

\* _initialize_masks: self.rows = [0] * 9; self.cols = [0] * 9; self.boxes = [0] * 9
reset_masks(st) ==
    [st EXCEPT !.rows = ZeroMasks, !.cols = ZeroMasks, !.boxes = ZeroMasks]

\* _initialize_masks: the double loop, |= into the masks of st for every
\* filled cell of bd
fill_masks(st, bd) ==
    [board |-> bd,
     rows  |-> [r \in Idx |-> BitOr(st.rows[r], MaskOfValues(bd[r]))],
     cols  |-> [c \in Idx |-> BitOr(st.cols[c], MaskOfValues([r \in Idx |-> bd[r][c]]))],
     boxes |-> [b \in Idx |-> BitOr(st.boxes[b], MaskOfValues(BoxValues(bd, b)))]]

\* a call _backtrack(board, empty_cells, idx) with idx = Len(sv.frames), up to
\* its loop: it returns True at once, or computes taken and starts the loop.
\* The value returned is kept in sv.ret as Python's integers 1 (True) and 0
\* (False).  entry is the board and the masks the call was entered with,
\* recorded to compare them with what the call leaves.
SolveEnter(sv) ==
    LET idx == Len(sv.frames)
    IN IF idx = Len(sv.empty_cells) THEN [sv EXCEPT !.ret = 1]
       ELSE [sv EXCEPT !.frames =
                Append(@, [taken |-> Taken(sv.st, sv.empty_cells[idx + 1][1],
                                           sv.empty_cells[idx + 1][2]),
                           k |-> 0, entry |-> sv.st])]

\* solve(board) on the solver sv up to the loop of the first _backtrack
SolveCall(sv, bd) ==
    LET st == fill_masks(reset_masks(sv.st), bd)
    IN SolveEnter([st |-> st, empty_cells |-> SortByOptions(EmptyCellsOf(bd), st, 0),
                   limit |-> 0, frames |-> <<>>, ret |-> NoRet])

\* the loop of the innermost _backtrack runs on from k: to the next free bit,
\* which it places before it calls _backtrack for idx + 1, or to the end,
\* where the call returns False
SolveAdvance(sv) ==
    LET d == Len(sv.frames)
        f == sv.frames[d]
        r == sv.empty_cells[d][1]
        c == sv.empty_cells[d][2]
        free == {k \in f.k..8 : BitAnd(f.taken, Shl1(k)) = 0}
    IN IF free = {}
       THEN [sv EXCEPT !.frames = SubSeq(@, 1, d - 1), !.ret = 0]
       ELSE LET k == CHOOSE x \in free : \A y \in free : x <= y
            IN SolveEnter([sv EXCEPT !.st = PlaceBit(sv.st, r, c, k), !.frames[d].k = k])

\* mutant of SolveResume: the undo clears the three mask bits but leaves the
\* digit in the cell
SolveResume_keeps_digit(sv) ==
    LET d == Len(sv.frames)
        f == sv.frames[d]
        r == sv.empty_cells[d][1]
        c == sv.empty_cells[d][2]
    IN IF sv.ret = 1
       THEN [sv EXCEPT !.frames = SubSeq(@, 1, d - 1)]
       ELSE [sv EXCEPT !.st = [UndoBit(sv.st, r, c, f.k) EXCEPT !.board = sv.st.board],
                       !.frames[d].k = f.k + 1, !.ret = NoRet]

\* mutant of SolveResume: after the undo the loop tries the same digit again
SolveResume_same_digit(sv) ==
    LET d == Len(sv.frames)
        f == sv.frames[d]
        r == sv.empty_cells[d][1]
        c == sv.empty_cells[d][2]
    IN IF sv.ret = 1
       THEN [sv EXCEPT !.frames = SubSeq(@, 1, d - 1)]
       ELSE [sv EXCEPT !.st = UndoBit(sv.st, r, c, f.k), !.ret = NoRet]

\* the call made by the innermost loop has returned sv.ret: True is returned
\* at once, after False the masks and the cell are undone and the loop goes on
SolveResume(sv) ==
    LET d == Len(sv.frames)
        f == sv.frames[d]
        r == sv.empty_cells[d][1]
        c == sv.empty_cells[d][2]
    IN IF sv.ret = 1
       THEN [sv EXCEPT !.frames = SubSeq(@, 1, d - 1)]
       ELSE [sv EXCEPT !.st = UndoBit(sv.st, r, c, f.k),
                       !.frames[d].k = f.k + 1, !.ret = NoRet]

\* count_solutions(board, limit) on the solver sv up to the loop of the first
\* _backtrack_count
CountCallOn(sv, bd, limit) ==
    CountEnter([st |-> fill_masks(reset_masks(sv.st), bd),
                empty_cells |-> EmptyCellsOf(bd), limit |-> limit,
                frames |-> <<>>, ret |-> NoRet])

\* _init_bitmasks: self.row_mask = [0] * 9; self.col_mask = ...; self.box_mask = ...
reset_bitmasks(h) ==
    [h EXCEPT !.row_mask = ZeroMasks, !.col_mask = ZeroMasks, !.box_mask = ZeroMasks]

\* _init_bitmasks: the double loop, |= into the masks of h
fill_bitmasks(h, bd) ==
    [h EXCEPT !.row_mask = [r \in Idx |-> BitOr(h.row_mask[r], MaskOfValues(bd[r]))],
              !.col_mask = [c \in Idx |->
                               BitOr(h.col_mask[c], MaskOfValues([r \in Idx |-> bd[r][c]]))],
              !.box_mask = [b \in Idx |-> BitOr(h.box_mask[b], MaskOfValues(BoxValues(bd, b)))]]

\* mutant of dnc_write: "if len(cands) >= 1", the smallest candidate is written
dnc_write_any_candidate(bd, r, c) ==
    IF bd[r][c] = 0 /\ Cardinality(get_candidates(bd, r, c)) >= 1
    THEN [board |-> [bd EXCEPT ![r][c] =
                        CHOOSE d \in get_candidates(bd, r, c) :
                            \A e \in get_candidates(bd, r, c) : d <= e],
          progress |-> TRUE]
    ELSE [board |-> bd, progress |-> FALSE]

\* the body of the inner loop of solve_dnc_subgrid at cell (r, c): the board
\* it leaves, and whether it set progress
dnc_write(bd, r, c) ==
    IF bd[r][c] = 0 /\ Cardinality(get_candidates(bd, r, c)) = 1
    THEN [board |-> [bd EXCEPT ![r][c] = CHOOSE d \in get_candidates(bd, r, c) : TRUE],
          progress |-> TRUE]
    ELSE [board |-> bd, progress |-> FALSE]

\* solve_dnc_phase one cell at a time: the body of the inner loop at cell
\* h.cell of box h.box, then whatever ends with it: the call of
\* solve_dnc_subgrid (progress is returned and changed is set), the pass over
\* the nine boxes (the while loop tests changed) and the phase (box = 9)
DncVisit(h) ==
    LET w == dnc_write(h.board, 3 * (h.box \div 3) + (h.cell \div 3),
                       3 * (h.box % 3) + (h.cell % 3))
        progress == h.progress \/ w.progress
        changed == h.changed \/ progress
    IN IF h.cell < 8
       THEN [h EXCEPT !.board = w.board, !.progress = progress, !.cell = h.cell + 1]
       ELSE IF h.box < 8
       THEN [h EXCEPT !.board = w.board, !.progress = FALSE, !.cell = 0,
                      !.box = h.box + 1, !.changed = changed]
       ELSE IF changed
       THEN [h EXCEPT !.board = w.board, !.progress = FALSE, !.cell = 0, !.box = 0,
                      !.changed = FALSE, !.pass_entry = w.board]
       ELSE [h EXCEPT !.board = w.board, !.progress = FALSE, !.cell = 0, !.box = 9,
                      !.changed = FALSE]

\* a call _solve_dp_helper(board), up to its loop: it returns the cached
\* value, the board (no empty cell) or None (a cell without candidates), or
\* starts the loop over the candidates of the cell found.  entry is the three
\* masks the call was entered with (state is the board), recorded to compare
\* them with what the call leaves.
DpEnter(h) ==
    LET state == h.board
    IN IF CacheHas(h.dp_cache, state)
       THEN [h EXCEPT !.ret = CacheGet(h.dp_cache, state), !.returned = TRUE]
       ELSE LET mrv == find_mrv_cell_bitmask(h, h.board)
            IN IF mrv = None
               THEN [h EXCEPT !.dp_cache = CachePut(@, state, h.board),
                              !.ret = h.board, !.returned = TRUE]
               ELSE IF mrv[3] = {}
               THEN [h EXCEPT !.dp_cache = CachePut(@, state, None),
                              !.ret = None, !.returned = TRUE]
               ELSE [h EXCEPT !.frames =
                        Append(@, [state |-> state, row |-> mrv[1], col |-> mrv[2],
                                   nums |-> SetIter(mrv[3], h.order), j |-> 0,
                                   entry |-> [row_mask |-> h.row_mask,
                                              col_mask |-> h.col_mask,
                                              box_mask |-> h.box_mask]]),
                              !.returned = FALSE]

\* mutant of DpCall: solve_dp keeps the dp_cache of the calls before it
DpCall_keeps_cache(h, bd, order) ==
    DpEnter([fill_bitmasks(reset_bitmasks(h), bd)
                EXCEPT !.board = bd, !.order = order,
                       !.frames = <<>>, !.returned = FALSE, !.ret = None])

\* solve_dp(board) on the solver h, up to the loop of the first _solve_dp_helper
DpCall(h, bd, order) ==
    DpEnter([fill_bitmasks(reset_bitmasks(h), bd)
                EXCEPT !.board = bd, !.dp_cache = {}, !.order = order,
                       !.frames = <<>>, !.returned = FALSE, !.ret = None])

\* the loop of the innermost _solve_dp_helper goes on: the next candidate is
\* placed and _solve_dp_helper is called, or the loop is over and None is
\* cached and returned
DpAdvance(h) ==
    LET d == Len(h.frames)
        f == h.frames[d]
    IN IF f.j = Len(f.nums)
       THEN [h EXCEPT !.dp_cache = CachePut(@, f.state, None),
                      !.frames = SubSeq(@, 1, d - 1), !.ret = None, !.returned = TRUE]
       ELSE DpEnter(HPlace([h EXCEPT !.frames[d].j = f.j + 1], f.row, f.col,
                           f.nums[f.j + 1]))

\* the call made by the innermost loop has returned h.ret: a board is cached
\* and returned at once, after None the cell and the masks are undone
DpResume(h) ==
    LET d == Len(h.frames)
        f == h.frames[d]
    IN IF h.ret # None
       THEN [h EXCEPT !.dp_cache = CachePut(@, f.state, h.ret),
                      !.frames = SubSeq(@, 1, d - 1)]
       ELSE [HUndo(h, f.row, f.col, f.nums[f.j]) EXCEPT !.returned = FALSE]

\* the grid of the i-th earlier call and what that call left in the solver:
\* in sudoku_dp.py BitmaskSolver.solve for odd i and count_solutions for even
\* i, in sudoku_hybrid.py solve_hybrid
PrevGrid(i) == Punch(FnSolved, {WinCells[j] : j \in 1..(2 * i)})

PrevSolver(i) ==
    IF i = 0 THEN IdleSolver
    ELSE [IdleSolver EXCEPT !.st = IF i % 2 = 1 THEN solve_state(PrevGrid(i)).st
                                   ELSE count_solutions_state(PrevGrid(i), 2).st]

PrevHybrid(i) ==
    IF i = 0 THEN IdleHybrid
    ELSE LET out == solve_dp_state(solve_dnc_phase(PrevGrid(i)), "asc").st
         IN [IdleHybrid EXCEPT !.board = out.board, !.row_mask = out.row_mask,
                               !.col_mask = out.col_mask, !.box_mask = out.box_mask,
                               !.dp_cache = out.dp_cache]

SearchInit ==
    /\ pc = "idle"
    /\ difficulty = "Medium"
    /\ board = ZeroBoard
    /\ initial_board = ZeroBoard
    /\ solution_board = ZeroBoard
    /\ cells = <<>>
    /\ ci = 0
    /\ holes = 0
    /\ backup = 0
    /\ variant \in {"dp", "hybrid"}
    /\ arg \in SearchGrids
    /\ op = <<"none">>
    /\ res = None
    /\ \E i \in 0..MaxPrev :
          /\ solver = IF variant = "dp" THEN PrevSolver(i) ELSE IdleSolver
          /\ hsolver = IF variant = "hybrid" THEN PrevHybrid(i) ELSE IdleHybrid
    /\ NoGame

SearchFrame ==
    UNCHANGED <<difficulty, board, initial_board, solution_board, cells, ci, holes,
                backup, variant, arg, pq, game_over, pending, locked, nturns>>

\* solver.solve(copy.deepcopy(arg))
SearchSolve ==
    /\ pc = "idle" /\ variant = "dp"
    /\ pc' = "solve"
    /\ op' = <<"solve">>
    /\ solver' = SolveCall(solver, arg)
    /\ UNCHANGED <<res, hsolver>>
    /\ SearchFrame

\* inside solve: the innermost loop goes on
SolveStep ==
    /\ pc = "solve"
    /\ solver.ret = NoRet
    /\ solver' = SolveAdvance(solver)
    /\ UNCHANGED <<pc, op, res, hsolver>>
    /\ SearchFrame

\* inside solve: a call returns to the loop that made it
SolveReturn ==
    /\ pc = "solve"
    /\ solver.ret # NoRet
    /\ solver.frames # <<>>
    /\ solver' = SolveResume(solver)
    /\ UNCHANGED <<pc, op, res, hsolver>>
    /\ SearchFrame

\* the first _backtrack returns to solve, which returns the board or None
SolveDone ==
    /\ pc = "solve"
    /\ solver.ret # NoRet
    /\ solver.frames = <<>>
    /\ pc' = "done"
    /\ res' = [ret |-> IF solver.ret = 1 THEN solver.st.board ELSE None]
    /\ UNCHANGED <<op, solver, hsolver>>
    /\ SearchFrame

\* solver.count_solutions(copy.deepcopy(arg), limit)
SearchCount ==
    /\ pc = "idle" /\ variant = "dp"
    /\ pc' = "count"
    /\ \E limit \in 1..MaxLimit :
          /\ op' = <<"count_solutions", limit>>
          /\ solver' = CountCallOn(solver, arg, limit)
    /\ UNCHANGED <<res, hsolver>>
    /\ SearchFrame

\* the first _backtrack_count returns to count_solutions, which returns its value
CountDone ==
    /\ pc = "count"
    /\ op[1] = "count_solutions"
    /\ solver.ret # NoRet
    /\ solver.frames = <<>>
    /\ pc' = "done"
    /\ res' = [ret |-> solver.ret]
    /\ UNCHANGED <<op, solver, hsolver>>
    /\ SearchFrame

\* solve_hybrid(arg): the deep copy, and solve_dnc_phase up to its first cell
SearchHybrid ==
    /\ pc = "idle" /\ variant = "hybrid"
    /\ pc' = "dnc"
    /\ op' = <<"solve_hybrid">>
    /\ hsolver' = [hsolver EXCEPT !.board = arg, !.changed = FALSE, !.box = 0,
                                  !.cell = 0, !.progress = FALSE, !.pass_entry = arg]
    /\ UNCHANGED <<res, solver>>
    /\ SearchFrame

\* inside solve_dnc_phase: one cell of one box
DncStep ==
    /\ pc = "dnc"
    /\ hsolver.box < 9
    /\ hsolver' = DncVisit(hsolver)
    /\ UNCHANGED <<pc, op, res, solver>>
    /\ SearchFrame

\* solve_dnc_phase returns and solve_hybrid calls solve_dp(board); order is
\* the order in which the candidate sets of this call are iterated
DncDone ==
    /\ pc = "dnc"
    /\ hsolver.box = 9
    /\ pc' = "solve_dp"
    /\ \E order \in SetOrders :
          /\ op' = <<"solve_hybrid", order>>
          /\ hsolver' = DpCall(hsolver, hsolver.board, order)
    /\ UNCHANGED <<res, solver>>
    /\ SearchFrame

\* solve_dp(copy.deepcopy(arg)), without the D&C phase before it
SearchSolveDp ==
    /\ pc = "idle" /\ variant = "hybrid"
    /\ pc' = "solve_dp"
    /\ \E order \in SetOrders :
          /\ op' = <<"solve_dp", order>>
          /\ hsolver' = DpCall(hsolver, arg, order)
    /\ UNCHANGED <<res, solver>>
    /\ SearchFrame

\* inside solve_dp: the innermost loop goes on
DpStep ==
    /\ pc = "solve_dp"
    /\ ~hsolver.returned
    /\ hsolver' = DpAdvance(hsolver)
    /\ UNCHANGED <<pc, op, res, solver>>
    /\ SearchFrame

\* inside solve_dp: a call returns to the loop that made it
DpReturn ==
    /\ pc = "solve_dp"
    /\ hsolver.returned
    /\ hsolver.frames # <<>>
    /\ hsolver' = DpResume(hsolver)
    /\ UNCHANGED <<pc, op, res, solver>>
    /\ SearchFrame

\* the first _solve_dp_helper returns to solve_dp and solve_hybrid returns
DpDone ==
    /\ pc = "solve_dp"
    /\ hsolver.returned
    /\ hsolver.frames = <<>>
    /\ pc' = "done"
    /\ res' = [ret |-> hsolver.ret]
    /\ UNCHANGED <<op, solver, hsolver>>
    /\ SearchFrame

SearchNext ==
    \/ SearchSolve
    \/ SolveStep
    \/ SolveReturn
    \/ SolveDone
    \/ SearchCount
    \/ CountStep
    \/ CountReturn
    \/ CountDone
    \/ SearchHybrid
    \/ DncStep
    \/ DncDone
    \/ SearchSolveDp
    \/ DpStep
    \/ DpReturn
    \/ DpDone

SpecSearch == SearchInit /\ [][SearchNext]_vars

\* ------------------------------------------------------------------------
\* Claims about the searches in progress (checked under SpecSearch)
\* ------------------------------------------------------------------------
\* C20: whatever calls the solver made before, solve, count_solutions and
\* solve_hybrid return what they return on a solver that made none: the masks
\* are rebuilt and dp_cache is emptied at the start of the call.
C20_ResultIndependentOfEarlierCalls ==
    (pc = "done") =>
        /\ op[1] = "solve" => res.ret = solve(arg)
        /\ op[1] = "count_solutions" => res.ret = count_solutions(arg, op[2])
        /\ op[1] = "solve_hybrid" => res.ret = solve_hybrid(arg, op[2])
        /\ op[1] = "solve_dp" => res.ret = solve_dp(arg, op[2])

\* C20 witness: count_solutions returned 2 on a solver whose masks were left
\* full by a solve that succeeded
C20_Witness ==
    /\ pc = "done" /\ op = <<"count_solutions", 2>>
    /\ \A r \in Idx : solver.frames = <<>> /\ PrevSolver(1).st.rows[r] = Mask9
    /\ res.ret = 2
    /\ EmptyCells(arg) # {}

\* the cell the innermost call of the search branches on
BranchCell ==
    IF pc = "solve_dp"
    THEN <<hsolver.frames[Len(hsolver.frames)].row, hsolver.frames[Len(hsolver.frames)].col>>
    ELSE solver.empty_cells[Len(solver.frames)]

\* the masks of the dp solver and of the hybrid solver mirror the boards
\* they work on
MasksMirrorBoard ==
    /\ pc \in {"solve", "count"} =>
          LET m == initialize_masks(solver.st.board)
          IN /\ solver.st.rows = m.rows
             /\ solver.st.cols = m.cols
             /\ solver.st.boxes = m.boxes
    /\ pc = "solve_dp" =>
          LET m == init_bitmasks(hsolver.board)
          IN /\ hsolver.row_mask = m.row_mask
             /\ hsolver.col_mask = m.col_mask
             /\ hsolver.box_mask = m.box_mask

\* a step that fills a cell sets a bit that is clear in the row mask, the
\* column mask and the box mask of the cell
PlacesOnClearBits ==
    /\ pc \in {"solve", "count"} =>
          \A p \in AllCells :
              (CellAt(solver.st.board, p) = 0 /\ CellAt(solver'.st.board, p) # 0) =>
                  LET bit == Shl1(CellAt(solver'.st.board, p) - 1)
                  IN /\ BitAnd(solver.st.rows[p[1]], bit) = 0
                     /\ BitAnd(solver.st.cols[p[2]], bit) = 0
                     /\ BitAnd(solver.st.boxes[get_box_index(p[1], p[2])], bit) = 0
    /\ pc = "solve_dp" =>
          \A p \in AllCells :
              (CellAt(hsolver.board, p) = 0 /\ CellAt(hsolver'.board, p) # 0) =>
                  LET bit == Shl1(CellAt(hsolver'.board, p) - 1)
                  IN /\ BitAnd(hsolver.row_mask[p[1]], bit) = 0
                     /\ BitAnd(hsolver.col_mask[p[2]], bit) = 0
                     /\ BitAnd(hsolver.box_mask[get_box_index(p[1], p[2])], bit) = 0

\* C19: at the entry and at the return of every recursive call of solve,
\* count_solutions and solve_dp the three mask arrays equal the masks computed
\* from scratch from the current board, and every placement sets a bit that
\* was clear in the row, column and box mask of its cell.
C19_MasksArePureCache == []MasksMirrorBoard /\ [][PlacesOnClearBits]_vars

\* C19 witness: three calls deep in a count_solutions on a grid that holds a
\* digit twice in a unit, after a placement was undone at the innermost level
C19_Witness ==
    /\ pc = "count" /\ ~SudokuInvariant(arg)
    /\ Len(solver.frames) >= 3
    /\ solver.ret = NoRet
    /\ solver.frames[Len(solver.frames)].k > 0
    /\ MasksMirrorBoard

\* a call that returns failure leaves the board and the masks it was entered with
FailureRestores ==
    /\ (pc = "solve" /\ Len(solver'.frames) < Len(solver.frames) /\ solver'.ret = 0) =>
          solver'.st = solver.frames[Len(solver.frames)].entry
    /\ (pc = "solve_dp" /\ Len(hsolver'.frames) < Len(hsolver.frames)
           /\ hsolver'.ret = None) =>
          LET f == hsolver.frames[Len(hsolver.frames)]
          IN /\ hsolver'.board = f.state
             /\ hsolver'.row_mask = f.entry.row_mask
             /\ hsolver'.col_mask = f.entry.col_mask
             /\ hsolver'.box_mask = f.entry.box_mask

\* a top-level call that returned None left the board it was given
NoneLeavesBoard ==
    (pc = "done" /\ op[1] \in {"solve", "solve_dp", "solve_hybrid"} /\ res.ret = None) =>
        /\ op[1] = "solve" => solver.st.board = arg
        /\ op[1] = "solve_dp" => hsolver.board = arg
        /\ op[1] = "solve_hybrid" => hsolver.board = solve_dnc_phase(arg)

\* C13: whenever a recursive call of _backtrack or _solve_dp_helper returns
\* failure, the board and the three mask arrays are what they were when the
\* call was entered; a top-level solve that returns None leaves the board it
\* was given as it received it.
C13_FailureRestoresState == []NoneLeavesBoard /\ [][FailureRestores]_vars

\* C13 witness: solve returned None on a grid in which every empty cell had a
\* candidate, so the first call placed digits and undid them
C13_Witness ==
    /\ pc = "done" /\ op[1] = "solve" /\ res.ret = None
    /\ EmptyCells(arg) # {}
    /\ \A p \in EmptyCells(arg) : Legal(arg, p) # {}
    /\ solver.st.board = arg

\* C18: at every step of the recursion, in BitmaskSolver.solve and in
\* _solve_dp_helper, the cell branched on has the minimum number of candidates
\* (by the current masks) among the cells that are empty at that step.
C18_BranchCellIsMrv ==
    /\ (pc = "solve" /\ solver.ret = NoRet /\ solver.frames # <<>>) =>
          \A q \in EmptyCells(solver.st.board) :
              count_options(solver.st, BranchCell[1], BranchCell[2])
                  <= count_options(solver.st, q[1], q[2])
    /\ (pc = "solve_dp" /\ ~hsolver.returned /\ hsolver.frames # <<>>) =>
          \A q \in EmptyCells(hsolver.board) :
              PopCount(candidates_bitmask(hsolver, hsolver.board, BranchCell[1], BranchCell[2]))
                  <= PopCount(candidates_bitmask(hsolver, hsolver.board, q[1], q[2]))

\* number of completions up to which two grids are compared
MaxCompletions == 20

\* a step of the D&C phase writes only to an empty cell, and the digit is the
\* single candidate of the cell in the board before the step; the valid
\* completions of the board stay the same
DncWritesForcedDigit ==
    (pc = "dnc" /\ pc' = "dnc") =>
        \A p \in AllCells :
            CellAt(hsolver'.board, p) # CellAt(hsolver.board, p) =>
                /\ CellAt(hsolver.board, p) = 0
                /\ get_candidates(hsolver.board, p[1], p[2]) = {CellAt(hsolver'.board, p)}
                /\ Completions(hsolver'.board, MaxCompletions)
                       = Completions(hsolver.board, MaxCompletions)

\* when the D&C phase ends the filled cells of the input are unchanged, a
\* valid input is still valid and the board has the completions of the input
DncKeepsGrid ==
    (pc = "dnc" /\ hsolver.box = 9) =>
        /\ Agrees(arg, hsolver.board)
        /\ SudokuInvariant(arg) => SudokuInvariant(hsolver.board)
        /\ Completions(hsolver.board, MaxCompletions) = Completions(arg, MaxCompletions)

\* C12: solve_dnc_phase writes only to empty cells, never changes a filled
\* cell, and every digit it writes was the single candidate of the cell at
\* the moment of writing; a grid that satisfies the Sudoku invariant still
\* satisfies it afterwards and has the same valid completions.
C12_DncPhaseSafe == []DncKeepsGrid /\ [][DncWritesForcedDigit]_vars

\* C12 witness: the phase ended on a valid grid with several completions,
\* having filled some cells and left others empty
C12_Witness ==
    /\ pc = "dnc" /\ hsolver.box = 9
    /\ SudokuInvariant(arg)
    /\ hsolver.board # arg
    /\ EmptyCells(hsolver.board) # {}
    /\ Cardinality(Completions(arg, MaxCompletions)) >= 2

\* ------------------------------------------------------------------------
\* Termination of the searches (checked under SpecSearchFair)
\* ------------------------------------------------------------------------
\* The interpreter runs a call that was started until it returns: weak
\* fairness of SearchNext.  SearchNext has a step in every state but those
\* with pc = "done" (each phase has an action for every value of the fields
\* its actions test), so WF_vars(SearchNext) is the formula SearchProgress:
\* the call has returned, or steps of it go on being taken.  The steps of a
\* propagation pass and the returns of the finished searches are stated in
\* the WF form as well.
SearchProgress == []<>(pc = "done") \/ []<><<SearchNext>>_vars

SpecSearchFair ==
    /\ SearchInit
    /\ [][SearchNext]_vars
    /\ WF_vars(DncStep)
    /\ WF_vars(SolveDone \/ CountDone \/ DpDone)
    /\ SearchProgress

\* the number of calls of _backtrack, _backtrack_count and _solve_dp_helper
\* inside their loops is at most the number of empty cells of the grid the
\* search was started on, and each of them but the innermost has filled a cell
DepthWithinEmpty ==
    /\ pc \in {"solve", "count"} =>
          /\ Len(solver.frames) <= NumEmpty(arg)
          /\ NumEmpty(solver.st.board) <= NumEmpty(arg) - (Len(solver.frames) - 1)
    /\ pc = "solve_dp" =>
          /\ Len(hsolver.frames) <= NumEmpty(arg)
          /\ NumEmpty(hsolver.board) <= NumEmpty(arg) - (Len(hsolver.frames) - 1)

\* a pass of solve_dnc_phase that is followed by another pass has filled a
\* cell, and the last pass has filled none
PassFills ==
    (pc = "dnc" /\ hsolver.box = 8 /\ hsolver.cell = 8) =>
        /\ hsolver'.box = 0 => NumEmpty(hsolver'.board) < NumEmpty(hsolver.pass_entry)
        /\ hsolver'.box = 9 => hsolver'.board = hsolver.pass_entry

\* C21: every solve, count_solutions and solve_dnc_phase call terminates;
\* the recursion depth of a search never exceeds the number of empty cells
\* of the grid it was started on; every propagation pass but the last fills
\* a cell.
C21_SearchTerminates ==
    /\ <>(pc = "done")
    /\ []DepthWithinEmpty
    /\ [][PassFills]_vars

\* C21 witness: solve_dp is as deep as the grid has empty cells left, after
\* a D&C phase of more than one pass
C21_Witness ==
    /\ pc = "solve_dp" /\ op[1] = "solve_hybrid"
    /\ hsolver.pass_entry # arg
    /\ Len(hsolver.frames) >= 2
    /\ Len(hsolver.frames) = NumEmpty(hsolver.pass_entry)

\* ------------------------------------------------------------------------
\* The cache of solve_dp (checked under SpecCache)
\* ------------------------------------------------------------------------
\* solve_dp and solve_hybrid run step by step on the grids of InputGrids,
\* where the search branches and backtracks, on a solver that made calls
\* before
CacheInit ==
    /\ pc = "idle"
    /\ difficulty = "Medium"
    /\ board = ZeroBoard
    /\ initial_board = ZeroBoard
    /\ solution_board = ZeroBoard
    /\ cells = <<>>
    /\ ci = 0
    /\ holes = 0
    /\ backup = 0
    /\ variant = "hybrid"
    /\ arg \in InputGrids
    /\ op = <<"none">>
    /\ res = None
    /\ solver = IdleSolver
    /\ \E i \in 0..MaxPrev : hsolver = PrevHybrid(i)
    /\ NoGame

CacheNext ==
    \/ SearchHybrid
    \/ DncStep
    \/ DncDone
    \/ SearchSolveDp
    \/ DpStep
    \/ DpReturn
    \/ DpDone

SpecCache == CacheInit /\ [][CacheNext]_vars

\* _solve_dp_helper and its loop with the two lines of the cache lookup and
\* every write to dp_cache taken out.  st is (board, row_mask, col_mask,
\* box_mask, seen), where seen collects the tuples "state" of the calls made;
\* the result is the value returned and the same five on return.
RECURSIVE plain_dp_helper(_, _), plain_dp_loop(_, _, _, _, _, _)
plain_dp_helper(st, order) ==
    LET mrv == find_mrv_cell_bitmask(st, st.board)
    IN IF mrv = None
       THEN [ret |-> st.board, st |-> [st EXCEPT !.seen = @ \cup {st.board}]]
       ELSE IF mrv[3] = {}
       THEN [ret |-> None, st |-> [st EXCEPT !.seen = @ \cup {st.board}]]
       ELSE plain_dp_loop([st EXCEPT !.seen = @ \cup {st.board}], order, mrv[1], mrv[2],
                          SetIter(mrv[3], order), 1)

plain_dp_loop(s, order, row, col, nums, j) ==
    IF j > Len(nums)
    THEN [ret |-> None, st |-> s]
    ELSE LET sub == plain_dp_helper(HPlace(s, row, col, nums[j]), order)
         IN IF sub.ret # None
            THEN sub
            ELSE plain_dp_loop(HUndo(sub.st, row, col, nums[j]), order, row, col,
                               nums, j + 1)

plain_dp(bd, order) ==
    LET m == init_bitmasks(bd)
    IN plain_dp_helper([board |-> bd, row_mask |-> m.row_mask, col_mask |-> m.col_mask,
                        box_mask |-> m.box_mask, seen |-> {}], order)

\* the grid solve_dp was called on by the call in progress
DpStart == IF op[1] = "solve_hybrid" THEN solve_dnc_phase(arg) ELSE arg

\* the call of _solve_dp_helper a step of the loop makes, after it has placed
\* a candidate, finds its state absent from dp_cache
LookupMisses ==
    (pc = "solve_dp" /\ ~hsolver.returned
        /\ NumEmpty(hsolver'.board) < NumEmpty(hsolver.board)) =>
        ~CacheHas(hsolver.dp_cache, hsolver'.board)

\* what solve_dp returns and the states its calls were entered with (every
\* call caches its state before it returns) are those of the search without
\* the cache
SameAsPlain(out) ==
    /\ res.ret = out.ret
    /\ {e[1] : e \in hsolver.dp_cache} = out.st.seen

\* C22: within one solve_dp call the lookup in dp_cache at the top of
\* _solve_dp_helper never succeeds, and the search visits the same states
\* and returns the same result as the same search without the cache.
C22_CacheNeverHit ==
    /\ [][LookupMisses]_vars
    /\ []((pc = "done" /\ op[1] \in {"solve_dp", "solve_hybrid"}) =>
             SameAsPlain(plain_dp(DpStart, op[2])))

\* C22 witness: solve_dp backtracked (two of the states it entered are
\* siblings) and returned None
C22_Witness ==
    /\ pc = "done" /\ op[1] = "solve_dp"
    /\ res.ret = None
    /\ \E e1, e2 \in hsolver.dp_cache :
          e1 # e2 /\ NumEmpty(e1[1]) = NumEmpty(e2[1])

\* ------------------------------------------------------------------------
\* sudoku_hybrid.py: the game of the user against the AI
\* ------------------------------------------------------------------------
\* the user types in the first MaxDuelCells cells of WinCells, and these are
\* the cells that may be empty in the first state
MaxDuelCells == 4

\* number of handlers run in a behaviour
MaxTurns == 5

\* number of ai_turn callbacks that wait at the same time
MaxPending == 1

\* new games are started at the difficulties that empty at most MaxHoles cells
MaxHoles == 30

DuelLevels == {d \in Difficulties : remove_count(d) <= MaxHoles}

DuelCells == {WinCells[i] : i \in 1..MaxDuelCells}

\* what the user leaves in an Entry: 0 for the empty text, or one of these digits
DuelDigits == {4, 7}

\* a cell that is a given in every game modelled; the user types in it too
GivenCell == <<0, 1>>

\* mutant of not_given: on_cell_edit goes on for a given cell
not_given_any(ib, row, col) == TRUE

\* on_cell_edit returns at once for a cell that initial_board fills
not_given(ib, row, col) == ib[row][col] = 0

\* the outcome of the shuffles of generate_puzzle in the games modelled: the
\* reference grid, and a list of cells that starts with WinCells
DuelOrder ==
    WinCells \o SelectSeq(CellOrder(49, 26), LAMBDA p : \A i \in 1..9 : WinCells[i] # p)

DuelPuzzle(diff) == TableBoard(hybrid_remove(FnSolved, DuelOrder, remove_count(diff)))

\* a game of difficulty Easy in which every cell but some of DuelCells has
\* been filled with the digit of the solution, after a click on Hint (which
\* rebuilds the queue and enables the cells the AI filled)
DuelInit ==
    /\ pc = "play"
    /\ difficulty = "Easy"
    /\ solution_board = FnSolved
    /\ initial_board = DuelPuzzle("Easy")
    /\ \E H \in (SUBSET DuelCells) \ {{}} :
          /\ board = Punch(FnSolved, H)
          /\ pq = initialize_priority_queue(Punch(FnSolved, H))
    /\ game_over = FALSE
    /\ pending = 0
    /\ locked = {}
    /\ nturns = 0
    /\ hsolver = IdleHybrid
    /\ cells = DuelOrder
    /\ ci = 0
    /\ holes = 0
    /\ backup = 0
    /\ solver = IdleSolver
    /\ variant = "hybrid"
    /\ arg = ZeroBoard
    /\ op = <<"none">>
    /\ res = None

DuelFrame ==
    /\ nturns < MaxTurns
    /\ nturns' = nturns + 1
    /\ pc' = pc
    /\ UNCHANGED <<ci, holes, backup, solver, variant, arg>>

\* new_game: generate_puzzle, the copy to initial_board, the queue, render_board
new_game_sets(diff) ==
    /\ game_over' = FALSE
    /\ difficulty' = diff
    /\ solution_board' = FnSolved
    /\ board' = DuelPuzzle(diff)
    /\ initial_board' = DuelPuzzle(diff)
    /\ cells' = DuelOrder
    /\ pq' = initialize_priority_queue(DuelPuzzle(diff))
    /\ locked' = {}

\* the button New Game, and a radio button of the difficulty
NewGame ==
    /\ pc = "play" /\ DuelFrame
    /\ \E diff \in DuelLevels : new_game_sets(diff)
    /\ op' = <<"new_game">>
    /\ res' = None
    /\ UNCHANGED <<hsolver, pending>>

\* the button Reset
ResetBoard ==
    /\ pc = "play" /\ DuelFrame
    /\ game_over' = FALSE
    /\ board' = initial_board
    /\ pq' = initialize_priority_queue(initial_board)
    /\ locked' = {}
    /\ op' = <<"reset_board">>
    /\ res' = None
    /\ UNCHANGED <<difficulty, initial_board, solution_board, cells, hsolver, pending>>

\* the button Hint: the queue is rebuilt, and render_board enables every
\* cell that is not a given, unless the queue is empty
ShowHint ==
    /\ pc = "play" /\ DuelFrame
    /\ ~game_over
    /\ pq' = initialize_priority_queue(board)
    /\ locked' = IF initialize_priority_queue(board) = <<>> THEN locked ELSE {}
    /\ op' = <<"show_hint">>
    /\ res' = None
    /\ UNCHANGED <<difficulty, board, initial_board, solution_board, cells, hsolver,
                   game_over, pending>>

\* the button AI Play schedules ai_turn
AiPlayButton ==
    /\ pc = "play" /\ DuelFrame
    /\ ~game_over
    /\ pending < MaxPending
    /\ pending' = pending + 1
    /\ op' = <<"ai_play_button">>
    /\ res' = None
    /\ UNCHANGED <<difficulty, board, initial_board, solution_board, cells, hsolver, pq,
                   game_over, locked>>

\* on_cell_edit(row, col) after a key was released in an enabled Entry that
\* now reads v ("" is 0), the Strict Mode box being checked or not
OnCellEdit ==
    /\ pc = "play" /\ DuelFrame
    /\ ~game_over
    /\ \E p \in (DuelCells \cup {GivenCell}) \ locked, v \in {0} \cup DuelDigits,
          strict \in BOOLEAN :
          LET row == p[1]
              col == p[2]
              cleared == [board EXCEPT ![row][col] = 0]
              placed == [board EXCEPT ![row][col] = v]
          IN /\ not_given(initial_board, row, col)
             /\ op' = <<"on_cell_edit">>
             /\ IF v = 0
                THEN /\ board' = cleared
                     /\ pq' = initialize_priority_queue(cleared)
                     /\ UNCHANGED <<game_over, pending>>
                ELSE IF strict /\ v # solution_board[row][col]
                THEN /\ board' = cleared
                     /\ UNCHANGED <<pq, game_over, pending>>
                ELSE IF is_valid(board, row, col, v)
                THEN /\ board' = placed
                     /\ pq' = update_neighbors(placed, pq, row, col)
                     /\ game_over' = is_complete(placed)
                     /\ pending < MaxPending
                     /\ pending' = IF is_complete(placed) THEN pending ELSE pending + 1
                ELSE /\ board' = cleared
                     /\ UNCHANGED <<pq, game_over, pending>>
    /\ res' = None
    /\ UNCHANGED <<difficulty, initial_board, solution_board, cells, hsolver, locked>>

\* ai_turn after ai_make_move returned mv
ai_turn_after(mv) ==
    /\ res' = [ret |-> mv.ret, at |-> mv.at, cell |-> mv.cell,
               rescan |-> mv.rescan, before |-> board, queue |-> pq]
    /\ hsolver' = mv.hs
    /\ IF mv.ret \/ is_complete(mv.board)
       THEN /\ board' = mv.board
            /\ pq' = mv.pq
            /\ game_over' = is_complete(mv.board)
            /\ locked' = IF mv.ret THEN locked \cup {mv.cell} ELSE locked
            /\ UNCHANGED <<difficulty, initial_board, solution_board, cells>>
       ELSE new_game_sets(difficulty)

\* a scheduled ai_turn runs.  res records the move: the board and the queue
\* ai_make_move was entered with, and what it did
AiTurn ==
    /\ pc = "play" /\ DuelFrame
    /\ pending > 0
    /\ pending' = pending - 1
    /\ IF game_over
       THEN /\ op' = <<"ai_turn">>
            /\ res' = None
            /\ UNCHANGED <<difficulty, board, initial_board, solution_board, cells,
                           hsolver, pq, game_over, locked>>
       ELSE \E order \in SetOrders :
               /\ op' = <<"ai_make_move", order>>
               /\ ai_turn_after(ai_make_move(hsolver, board, pq, order))

DuelNext ==
    \/ NewGame
    \/ ResetBoard
    \/ ShowHint
    \/ AiPlayButton
    \/ OnCellEdit
    \/ AiTurn

SpecDuel == DuelInit /\ [][DuelNext]_vars

\* ------------------------------------------------------------------------
\* Claims about the moves of the AI (checked under SpecDuel)
\* ------------------------------------------------------------------------
\* ai_make_move ran in the last step and popped a cell
MovePopped == pc = "play" /\ op[1] = "ai_make_move" /\ res.cell # None

CandidateCount(bd, p) == Cardinality(get_candidates(bd, p[1], p[2]))

\* C14: whatever new games, resets, user edits and AI moves came before, the
\* cell that ai_make_move pops and fills is empty at that moment; no filled
\* cell is overwritten.
C14_PoppedCellIsEmpty ==
    MovePopped =>
        /\ CellAt(res.before, res.cell) = 0
        /\ res.at = "filled" =>
              \A p \in AllCells : CellAt(res.before, p) # 0 =>
                                     CellAt(board, p) = CellAt(res.before, p)

\* C14 witness: the least entry of the queue was the entry of a cell filled
\* since it was pushed, and the move filled another cell
C14_Witness ==
    /\ MovePopped /\ res.at = "filled"
    /\ res.queue # <<>>
    /\ res.before[res.queue[1][2]][res.queue[1][3]] # 0
    /\ ~res.rescan

\* C15: when the queue is empty after the stale entries are discarded and
\* the board has an empty cell, ai_make_move rebuilds the queue by a scan of
\* the board before it decides; it returns False for lack of an entry only
\* when no empty cell has a candidate.
C15_RescanBeforeGivingUp ==
    (pc = "play" /\ op[1] = "ai_make_move") =>
        /\ (clean_stale(res.queue, res.before) = <<>> /\ ~is_complete(res.before))
              => res.rescan
        /\ res.rescan /\ res.cell # None =>
              res.cell = <<initialize_priority_queue(res.before)[1][2],
                           initialize_priority_queue(res.before)[1][3]>>
        /\ res.at = "no_entry" =>
              \A p \in EmptyCells(res.before) : get_candidates(res.before, p[1], p[2]) = {}

\* C15 witness: the queue held stale entries only while a cell with a
\* candidate was empty; the queue was rebuilt and the cell filled
C15_Witness ==
    /\ MovePopped /\ res.at = "filled"
    /\ res.rescan
    /\ res.queue # <<>>

\* C17: the cell selected by ai_make_move has the least candidate count of
\* the empty cells that have a candidate.
C17_SelectedCellIsMostConstrained ==
    MovePopped =>
        \A q \in EmptyCells(res.before) :
            CandidateCount(res.before, q) >= 1 =>
                CandidateCount(res.before, res.cell) <= CandidateCount(res.before, q)

\* ------------------------------------------------------------------------
\* Claims about the board of the game (checked under SpecDuel)
\* ------------------------------------------------------------------------
\* C23: in the sudoku_hybrid.py game, after any sequence of new games,
\* resets, user edits (strict mode on or off), hints and AI turns, no digit
\* occurs twice in a row, column or box of the board; so a board for which
\* is_complete() is true is a valid solution.
C23_BoardStaysValid ==
    pc = "play" =>
        /\ \A p \in AllCells : CellAt(board, p) \in 0..9
        /\ SudokuInvariant(board)
        /\ is_complete(board) => (Complete(board) /\ SudokuInvariant(board))

\* C23 witness: with Strict Mode off the user has entered a digit that is not
\* the digit of the solution, and is_valid accepted it
C23_Witness ==
    /\ pc = "play" /\ op[1] = "on_cell_edit"
    /\ \E p \in AllCells : CellAt(board, p) \notin {0, CellAt(solution_board, p)}

\* ------------------------------------------------------------------------
\* sudoku_dp.py: the game of the user against the AI
\* ------------------------------------------------------------------------
\* the user types in the first MaxDpCells cells of WinCells, and these are
\* the cells that may be empty in the first state
MaxDpCells == 3

DpCells == {WinCells[i] : i \in 1..MaxDpCells}

\* the outcome of random.shuffle(cells) in the games modelled: a list that
\* starts with DpCells and whose first TargetEasy cells are all removed by
\* the loop of generate_puzzle (count_solutions returns 1 after each)
DpRest == SelectSeq(CellOrder(49, 26), LAMBDA p : \A i \in 1..9 : WinCells[i] # p)

DpOrder ==
    SubSeq(WinCells, 1, 4) \o SubSeq(DpRest, 1, 20) \o SubSeq(DpRest, 24, 29)
        \o SubSeq(DpRest, 21, 23) \o SubSeq(DpRest, 30, 72) \o SubSeq(WinCells, 5, 9)

\* generate_puzzle at difficulty Easy on the reference grid and DpOrder
DpPuzzle == TableBoard(Punch(FnSolved, {DpOrder[i] : i \in 1..TargetEasy}))

\* is_complete of sudoku_dp.py: no cell is 0 and every row, column and box
\* holds 9 different values
dp_is_complete(bd) ==
    /\ \A i \in Idx, j \in Idx : bd[i][j] # 0
    /\ \A i \in Idx : Cardinality({bd[i][j] : j \in Idx}) = 9
    /\ \A j \in Idx : Cardinality({bd[i][j] : i \in Idx}) = 9
    /\ \A br \in {0, 3, 6}, bc \in {0, 3, 6} :
          Cardinality({bd[br + i][bc + j] : i \in 0..2, j \in 0..2}) = 9

\* the first cell of bd that is 0, rows first, or None
first_empty(bd) ==
    IF \A p \in AllCells : CellAt(bd, p) # 0 THEN None
    ELSE CHOOSE p \in AllCells :
            /\ CellAt(bd, p) = 0
            /\ \A q \in AllCells : CellAt(bd, q) = 0 => (9 * p[1] + p[2] <= 9 * q[1] + q[2])

\* mutant of dp_fill: the cell after the first empty cell is written
dp_fill_next_cell(bd, solved, p) ==
    IF p = None THEN bd
    ELSE [bd EXCEPT ![(p[1] + (p[2] + 1) \div 9) % 9][(p[2] + 1) % 9] =
                        solved[(p[1] + (p[2] + 1) \div 9) % 9][(p[2] + 1) % 9]]

\* ai_turn, "Fill one cell only": the first empty cell p gets the digit of solved
dp_fill(bd, solved, p) ==
    IF p = None THEN bd ELSE [bd EXCEPT ![p[1]][p[2]] = solved[p[1]][p[2]]]

\* ai_turn of sudoku_dp.py with game_over false, on the board bd, solved being
\* what solve_dp(self.board) returned: the board and game_over it leaves
dp_ai_turn(bd, solved) ==
    IF solved = None
    THEN [ret |-> FALSE, cell |-> None, board |-> bd, game_over |-> FALSE]
    ELSE [ret |-> TRUE, cell |-> first_empty(bd),
          board |-> dp_fill(bd, solved, first_empty(bd)),
          game_over |-> dp_is_complete(dp_fill(bd, solved, first_empty(bd)))]

\* a game of sudoku_dp.py at difficulty Easy in which every cell but some of
\* DpCells has been filled with the digit of the solution
DpInit ==
    /\ pc = "dp_play"
    /\ difficulty = "Easy"
    /\ solution_board = FnSolved
    /\ initial_board = DpPuzzle
    /\ \E H \in (SUBSET DpCells) \ {{}} : board = Punch(FnSolved, H)
    /\ pq = <<>>
    /\ game_over = FALSE
    /\ pending = 0
    /\ locked = {}
    /\ nturns = 0
    /\ hsolver = IdleHybrid
    /\ cells = DpOrder
    /\ ci = 0
    /\ holes = 0
    /\ backup = 0
    /\ solver = IdleSolver
    /\ variant = "dp"
    /\ arg = ZeroBoard
    /\ op = <<"none">>
    /\ res = None

\* what no handler of sudoku_dp.py has: the queue, the scheduled callbacks,
\* the disabled cells and the solver of sudoku_hybrid.py
DpFrame ==
    /\ DuelFrame
    /\ UNCHANGED <<difficulty, solution_board, cells, hsolver, pq, pending, locked>>

\* the button New Game
DpNewGame ==
    /\ pc = "dp_play" /\ DpFrame
    /\ game_over' = FALSE
    /\ board' = DpPuzzle
    /\ initial_board' = DpPuzzle
    /\ op' = <<"new_game">>
    /\ res' = None

\* the button Reset
DpResetBoard ==
    /\ pc = "dp_play" /\ DpFrame
    /\ board' = initial_board
    /\ game_over' = FALSE
    /\ op' = <<"reset_board">>
    /\ res' = None
    /\ UNCHANGED initial_board

\* the button Hint: solve_dp(self.board) and a message box
DpShowHint ==
    /\ pc = "dp_play" /\ DpFrame
    /\ op' = <<"show_hint">>
    /\ res' = [ret |-> solve(board) # None, cell |-> first_empty(board), before |-> board]
    /\ UNCHANGED <<board, initial_board, game_over>>

\* ai_turn has run on the board bd and left out
dp_ai_turn_sets(bd, out) ==
    /\ board' = out.board
    /\ game_over' = out.game_over
    /\ res' = [ret |-> out.ret, cell |-> out.cell, before |-> bd]

\* the button AI Move calls ai_turn
DpAiTurn ==
    /\ pc = "dp_play" /\ DpFrame
    /\ ~game_over
    /\ op' = <<"ai_turn">>
    /\ dp_ai_turn_sets(board, dp_ai_turn(board, solve(board)))
    /\ UNCHANGED initial_board

\* on_cell_edit: the digit v is written unchecked, and ai_turn is called
\* unless the board is complete and valid
dp_edit_sets(placed) ==
    IF dp_is_complete(placed)
    THEN /\ board' = placed
         /\ game_over' = TRUE
         /\ res' = None
    ELSE dp_ai_turn_sets(placed, dp_ai_turn(placed, solve(placed)))

\* on_cell_edit(row, col) after a key was released in an Entry that now reads
\* v ("" is 0), the Strict Mode box being checked or not
DpOnCellEdit ==
    /\ pc = "dp_play" /\ DpFrame
    /\ ~game_over
    /\ \E p \in DpCells \cup {GivenCell}, v \in {0} \cup DuelDigits, strict \in BOOLEAN :
          /\ not_given(initial_board, p[1], p[2])
          /\ op' = <<"on_cell_edit">>
          /\ IF v = 0
             THEN /\ board' = [board EXCEPT ![p[1]][p[2]] = 0]
                  /\ res' = None
                  /\ UNCHANGED game_over
             ELSE IF strict /\ v # solution_board[p[1]][p[2]]
             THEN /\ res' = None
                  /\ UNCHANGED <<board, game_over>>
             ELSE dp_edit_sets([board EXCEPT ![p[1]][p[2]] = v])
    /\ UNCHANGED initial_board

DpNext ==
    \/ DpNewGame
    \/ DpResetBoard
    \/ DpShowHint
    \/ DpAiTurn
    \/ DpOnCellEdit

\* the games of both programs
GamesInit == DuelInit \/ DpInit

GamesNext == DuelNext \/ DpNext

SpecGames == GamesInit /\ [][GamesNext]_vars

\* ------------------------------------------------------------------------
\* Claims about the games of both programs (checked under SpecGames)
\* ------------------------------------------------------------------------
Playing == pc \in {"play", "dp_play"}

\* every cell that initial_board fills holds the same digit in board
GivensKept ==
    \A p \in AllCells : CellAt(initial_board, p) # 0 =>
                            CellAt(board, p) = CellAt(initial_board, p)

\* the failed ai_turn of sudoku_hybrid.py that went on to new_game
StartedNewGame == op'[1] = "ai_make_move" /\ ~res'.ret /\ ~is_complete(res'.before)

\* a hint leaves the board as it was, and an AI turn leaves every cell but
\* the one it fills as it was when the solver was called
SolverLeavesBoard ==
    /\ op'[1] = "show_hint" => board' = board
    /\ (op'[1] \in {"ai_turn", "ai_make_move", "on_cell_edit"} /\ res' # None
           /\ ~StartedNewGame) =>
          \A p \in AllCells :
              p # res'.cell => CellAt(board', p) = CellAt(res'.before, p)

\* C24: in both programs the given cells never change between one new_game
\* and the next, whatever edits, AI turns, hints and resets are made; the
\* solver calls of the AI and of the hints leave the live board untouched.
C24_GivensNeverChange ==
    /\ [](Playing => GivensKept)
    /\ [][SolverLeavesBoard]_vars

\* C24 witness: in sudoku_dp.py the AI has just filled a cell of a board on
\* which the user holds a digit that is not the digit of the solution
C24_Witness ==
    /\ pc = "dp_play" /\ op[1] = "ai_turn"
    /\ res.ret /\ res.cell # None
    /\ CellAt(board, res.cell) # 0
    /\ \E p \in AllCells : CellAt(board, p) \notin {0, CellAt(solution_board, p)}

\* ai_turn ran in this step with game_over false: res' holds the board it
\* was entered with (before), what it returned and the cell it chose
AiRan == op'[1] \in {"ai_turn", "ai_make_move", "on_cell_edit"} /\ res' # None

\* g satisfies the Sudoku invariant and has a valid completion
Solvable(g) == Completions(g, 1) # {}

\* an AI turn on a valid, solvable board with k >= 1 empty cells fills one
\* empty cell and leaves the others, the board stays solvable, and the game
\* is over exactly when that cell was the last one
AiTurnFills ==
    (AiRan /\ NumEmpty(res'.before) >= 1 /\ Solvable(res'.before)) =>
        /\ res'.ret /\ res'.cell # None
        /\ CellAt(res'.before, res'.cell) = 0
        /\ CellAt(board', res'.cell) \in 1..9
        /\ \A p \in AllCells :
              p # res'.cell => CellAt(board', p) = CellAt(res'.before, p)
        /\ Solvable(board')
        /\ game_over' = (NumEmpty(res'.before) = 1)
        /\ game_over' => (Complete(board') /\ SudokuInvariant(board'))

\* the AI turn made no move: the solver found no solution, or no cell was
\* there to fill
NoMove == AiRan /\ (~res'.ret \/ res'.cell = None)

\* an AI turn that makes no move leaves the board unchanged
NoMoveKeepsBoard == NoMove => board' = res'.before

\* an AI turn that makes no move leaves the board unchanged in sudoku_dp.py,
\* and in sudoku_hybrid.py when the board is complete; on an incomplete board
\* the ai_turn of sudoku_hybrid.py starts a new game
NoMoveKeepsOrRestarts ==
    NoMove =>
        IF variant = "dp" \/ is_complete(res'.before)
        THEN board' = res'.before
        ELSE /\ board' = DuelPuzzle(difficulty)
             /\ initial_board' = board'
             /\ ~game_over'

\* C25 as stated: from a valid and solvable board with k >= 1 empty cells
\* and game_over false, each AI turn fills exactly one empty cell with a
\* digit that keeps the board solvable, the k-th leaves the board complete
\* and valid with game_over true; an AI turn that cannot produce a move
\* leaves the board unchanged.
C25_AiTurnsFinishOrKeepBoard == [][AiTurnFills /\ NoMoveKeepsBoard]_vars

\* C25 amended: as stated for the turns that fill a cell; an AI turn that
\* cannot produce a move leaves the board unchanged in sudoku_dp.py, and in
\* sudoku_hybrid.py it starts a new game unless the board is complete.
C25_AiTurnsFinishOrRestart == [][AiTurnFills /\ NoMoveKeepsOrRestarts]_vars

\* C25 witness: in sudoku_hybrid.py the solver found no solution for a board
\* with a digit of the user on it, and ai_turn replaced the board by a new
\* puzzle
C25_Witness ==
    /\ pc = "play" /\ op[1] = "ai_make_move"
    /\ ~res.ret /\ res.at = "no_solution"
    /\ SudokuInvariant(res.before)
    /\ board = initial_board
    /\ board # res.before

====
